---- MODULE Spec2Model ----
(***************************************************************************)
(* Model of the speer evidence engine (src/speer_core.py) and of the part  *)
(* of its web layer (src/app.py): the upload endpoint and the handlers     *)
(* that serve what the last upload left.                                   *)
(*                                                                         *)
(* Text is a sequence of one-character strings.  The string "nbsp" stands  *)
(* for the single character U+00A0.  A float is kept as the exact decimal  *)
(* numeral float() was given, in canonical form (see ParseFloat).          *)
(***************************************************************************)
EXTENDS Integers, Sequences, FiniteSets, TLC

VARIABLES
    pc,          \* which operation filled the state: "init" or the name of the step
    file,        \* the file detect_and_parse was called with
    outcome,     \* what detect_and_parse did: a record, or an exception
    file_paths,  \* parse_invoice_files: the list of paths it was called with
    next_index,  \* parse_invoice_files: 1-based index of the path the loop is at
    records,     \* parse_invoice_files: the records list built so far
    returned,    \* parse_invoice_files: "running", "returned" or "raised"
    iban_in,     \* _is_valid_iban: its argument
    iban_ok,     \* _is_valid_iban: its result
    raw_amount,  \* _normalize_amount: its argument
    amount_out,  \* _normalize_amount: its result
    exports,     \* export_outputs: the rows written to each of the five files
    errors_in,   \* _suggested_action: its argument
    action_out,  \* _suggested_action: its result
    latest_records,  \* app.latest_records, with the run that assigned it
    latest_exports,  \* app.latest_exports, with the run that assigned it
    upload_at,   \* where each upload request is in upload()
    answer       \* what the last GET handler to return has answered

advice_vars == <<errors_in, action_out>>
web_vars == <<latest_records, latest_exports, upload_at, answer>>

vars == <<pc, file, outcome, file_paths, next_index, records, returned,
          iban_in, iban_ok, raw_amount, amount_out, exports, advice_vars, web_vars>>

\* Optional[T]: None, or Some(x) with Val(Some(x)) = x
None == <<>>
Some(x) == <<x>>
Val(o) == o[1]

-----------------------------------------------------------------------------
(* Characters *)

DigitChars == <<"0", "1", "2", "3", "4", "5", "6", "7", "8", "9">>
UpperChars == <<"A", "B", "C", "D", "E", "F", "G", "H", "I", "J", "K", "L", "M",
                "N", "O", "P", "Q", "R", "S", "T", "U", "V", "W", "X", "Y", "Z">>
LowerChars == <<"a", "b", "c", "d", "e", "f", "g", "h", "i", "j", "k", "l", "m",
                "n", "o", "p", "q", "r", "s", "t", "u", "v", "w", "x", "y", "z">>

Range(s) == {s[i] : i \in DOMAIN s}

DigitSet == Range(DigitChars)
UpperSet == Range(UpperChars)
LowerSet == Range(LowerChars)
LetterSet == UpperSet \cup LowerSet
\* str.isspace() / regex \s on the characters the model uses
SpaceSet == {" ", "\n", "\t", "nbsp"}
\* regex \w
WordSet == DigitSet \cup LetterSet \cup {"_"}

IndexOf(c, s) == CHOOSE i \in DOMAIN s : s[i] = c

\* ord(c) for the characters whose code the program uses
Ord(c) ==
    IF c \in DigitSet THEN 47 + IndexOf(c, DigitChars)
    ELSE IF c \in UpperSet THEN 64 + IndexOf(c, UpperChars)
    ELSE 96 + IndexOf(c, LowerChars)

\* int(c) of a decimal digit
DigitVal(c) == IndexOf(c, DigitChars) - 1

\* str.upper(), character by character
UpperChar(c) == IF c \in LowerSet THEN UpperChars[IndexOf(c, LowerChars)] ELSE c
Upper(s) == [i \in DOMAIN s |-> UpperChar(s[i])]

\* str.isalpha() and str.isalnum(): false for the empty string
IsAlpha(s) == Len(s) > 0 /\ \A i \in DOMAIN s : s[i] \in LetterSet
IsAlnum(s) == Len(s) > 0 /\ \A i \in DOMAIN s : s[i] \in LetterSet \cup DigitSet

\* s[a:] and s[:b] of Python, 0-based a and b within 0..len(s)
From(s, a) == SubSeq(s, a + 1, Len(s))
Upto(s, b) == SubSeq(s, 1, b)

\* str(n) for 0 <= n
RECURSIVE IntToStr(_)
IntToStr(n) ==
    IF n < 10 THEN <<DigitChars[n + 1]>>
    ELSE IntToStr(n \div 10) \o <<DigitChars[(n % 10) + 1]>>

-----------------------------------------------------------------------------
(* IBAN validation *)

IbanMinLen == 15
IbanMaxLen == 34
IbanModulus == 97
LetterOffset == 55
\* the repetition {13,34} of the IBAN shape
IbanShapeMin == 13
IbanShapeMax == 34

RECURSIVE _iban_to_int_string(_)
_iban_to_int_string(iban) ==
    IF iban = <<>> THEN <<>>
    ELSE (IF Head(iban) \in DigitSet THEN <<Head(iban)>>
          ELSE IntToStr(Ord(Head(iban)) - LetterOffset))
         \o _iban_to_int_string(Tail(iban))

\* one turn of the loop of _is_valid_iban
NextRemainder(remainder, digit) == (remainder * 10 + DigitVal(digit)) % IbanModulus

\* the loop of _is_valid_iban: remainder after the digits of numeric up to k.
\* The recursion takes four turns of the loop at a time, and compares
\* `before` first so that it is computed before the turns are nested.
RECURSIVE Remainder(_, _)
Remainder(numeric, k) ==
    IF k = 0 THEN 0
    ELSE IF k < 4 THEN NextRemainder(Remainder(numeric, k - 1), numeric[k])
    ELSE LET before == Remainder(numeric, k - 4)
         IN  IF before < 0 THEN before
             ELSE NextRemainder(NextRemainder(NextRemainder(NextRemainder(
                      before, numeric[k - 3]), numeric[k - 2]), numeric[k - 1]), numeric[k])

FinalRemainder(numeric) == Remainder(numeric, Len(numeric))

\* a rearrangement that moves the country code alone
RearrangedByTwo(iban) == From(iban, 2) \o Upto(iban, 2)

Rearranged(iban) == From(iban, 4) \o Upto(iban, 4)

_is_valid_iban(iban) ==
    IF Len(iban) < IbanMinLen \/ Len(iban) > IbanMaxLen THEN FALSE
    ELSE IF ~IsAlpha(Upto(iban, 2)) THEN FALSE
    ELSE IF ~IsAlnum(From(iban, 2)) THEN FALSE
    ELSE FinalRemainder(_iban_to_int_string(Rearranged(iban))) = 1

-----------------------------------------------------------------------------
(* Regular expressions, matched the way Python's re does: leftmost start,  *)
(* alternatives in order, greedy repetition, backtracking.  A pattern is a *)
(* tree of records; M gives the matches that start at position i in the    *)
(* order the backtracking matcher tries them, so the first one is the      *)
(* match re returns.  Only group 1 is tracked: g = <<start, end>> (end     *)
(* exclusive), or <<>> while the group has not taken part.                 *)

Set(S) == [t |-> "set", s |-> S]
Seq_(xs) == [t |-> "seq", xs |-> xs]
Alt(xs) == [t |-> "alt", xs |-> xs]
\* x{lo,hi}; hi = -1 for no upper limit
Rep(x, lo, hi) == [t |-> "rep", x |-> x, lo |-> lo, hi |-> hi]
Star(x) == Rep(x, 0, -1)
Plus(x) == Rep(x, 1, -1)
Opt(x) == Rep(x, 0, 1)
Times(x, n) == Rep(x, n, n)
Group(x) == [t |-> "grp", x |-> x]
WordBoundary == [t |-> "wb"]

\* a literal character and a literal word under re.IGNORECASE
Ci(c) == Set({c, UpperChar(c)})
CiWord(w) == [t |-> "word", w |-> [k \in DOMAIN w |-> {w[k], UpperChar(w[k])}]]
\* the word w, each character in either case, at position i
IsCiWordAt(w, s, i) ==
    /\ i + Len(w) - 1 <= Len(s)
    /\ \A k \in DOMAIN w : s[i + k - 1] \in w[k]

IsWordAt(s, i) == i >= 1 /\ i <= Len(s) /\ s[i] \in WordSet
\* \b between position i-1 and position i
AtWordBoundary(s, i) == IsWordAt(s, i - 1) # IsWordAt(s, i)

\* the matches rs of a group that starts at i, each recorded as the group
Captured(i, rs) == [k \in DOMAIN rs |-> [e |-> rs[k].e, g |-> <<i, rs[k].e>>]]

\* the repetition of a character set, without recursion: the run of members
\* from position i, at most n.hi long, and the matches from the longest one
\* down to the one of n.lo characters, which is the order greedy matching
\* tries them in
RunLength(S, s, i, most) ==
    IF most <= 0 \/ s[i] \notin S THEN 0
    ELSE IF most = 1 \/ s[i + 1] \notin S THEN 1
    ELSE Cardinality({k \in i..(i + most - 1) : \A m \in i..k : s[m] \in S})
MRepSet(n, s, i, g) ==
    LET left == Len(s) - i + 1
        run == RunLength(n.x.s, s, i, IF n.hi < 0 \/ left < n.hi THEN left ELSE n.hi)
    IN  IF run < n.lo THEN <<>>
        ELSE [k \in 1..(run - n.lo + 1) |-> [e |-> i + run - k + 1, g |-> g]]

RECURSIVE M(_, _, _, _)
RECURSIVE MSeq(_, _, _, _, _)
RECURSIVE MSeqRest(_, _, _, _, _, _)
RECURSIVE MAlt(_, _, _, _, _)
RECURSIVE MRep(_, _, _, _, _)
RECURSIVE MRepRest(_, _, _, _, _, _)

M(n, s, i, g) ==
    CASE n.t = "set" ->
            IF i <= Len(s) /\ s[i] \in n.s THEN <<[e |-> i + 1, g |-> g]>> ELSE <<>>
      [] n.t = "word" ->
            IF IsCiWordAt(n.w, s, i) THEN <<[e |-> i + Len(n.w), g |-> g]>> ELSE <<>>
      [] n.t = "seq" -> MSeq(n.xs, 1, s, i, g)
      [] n.t = "alt" -> MAlt(n.xs, 1, s, i, g)
      [] n.t = "rep" -> IF n.x.t = "set" THEN MRepSet(n, s, i, g) ELSE MRep(n, 0, s, i, g)
      [] n.t = "grp" -> Captured(i, M(n.x, s, i, g))
      [] n.t = "wb" ->
            IF AtWordBoundary(s, i) THEN <<[e |-> i, g |-> g]>> ELSE <<>>

\* xs[k], xs[k+1], ... in sequence from position i
MSeq(xs, k, s, i, g) ==
    IF k > Len(xs) THEN <<[e |-> i, g |-> g]>>
    ELSE LET rs == M(xs[k], s, i, g)
         IN  IF Len(rs) = 1 THEN MSeq(xs, k + 1, s, rs[1].e, rs[1].g)
             ELSE MSeqRest(xs, k, s, rs, 1, Len(rs))

\* the rest of the sequence after each of the matches rs[lo], ..., rs[hi] of
\* xs[k], in their order
MSeqRest(xs, k, s, rs, lo, hi) ==
    IF lo > hi THEN <<>>
    ELSE IF lo = hi THEN MSeq(xs, k + 1, s, rs[lo].e, rs[lo].g)
    ELSE MSeqRest(xs, k, s, rs, lo, (lo + hi) \div 2)
         \o MSeqRest(xs, k, s, rs, (lo + hi) \div 2 + 1, hi)

MAlt(xs, k, s, i, g) ==
    IF k > Len(xs) THEN <<>>
    ELSE M(xs[k], s, i, g) \o MAlt(xs, k + 1, s, i, g)

\* greedy: one more repetition first, then stopping here
MRep(n, count, s, i, g) ==
    (IF n.hi < 0 \/ count < n.hi
     THEN MRepRest(n, count, s, i, M(n.x, s, i, g), 1)
     ELSE <<>>)
    \o (IF count >= n.lo THEN <<[e |-> i, g |-> g]>> ELSE <<>>)

MRepRest(n, count, s, i, rs, j) ==
    IF j > Len(rs) THEN <<>>
    ELSE (IF rs[j].e > i THEN MRep(n, count + 1, s, rs[j].e, rs[j].g) ELSE <<>>)
         \o MRepRest(n, count, s, i, rs, j + 1)

\* the leftmost match among ms, the matches at each start position: Some of
\* [start, e, g], or None
LeftmostMatch(ms) ==
    LET starts == {j \in DOMAIN ms : ms[j] # <<>>}
    IN  IF starts = {} THEN None
        ELSE LET j == CHOOSE a \in starts : \A b \in starts : a <= b
             IN  Some([start |-> j, e |-> ms[j][1].e, g |-> ms[j][1].g])

\* pattern.search(s) from position i on
SearchFrom(re, s, i) == LeftmostMatch([j \in i..(Len(s) + 1) |-> M(re, s, j, <<>>)])

Search(re, s) == SearchFrom(re, s, 1)

\* match.group(1)
Group1(s, m) == SubSeq(s, m.g[1], m.g[2] - 1)

\* pattern.findall(s) of a pattern whose matches are never empty: group 1 of
\* each match, the scan resuming where the previous match ended
RECURSIVE FindAllFrom(_, _, _)
RECURSIVE FindAllAfter(_, _, _)
FindAllFrom(re, s, i) == FindAllAfter(re, s, SearchFrom(re, s, i))
FindAllAfter(re, s, m) ==
    IF m = None THEN <<>>
    ELSE <<Group1(s, Val(m))>> \o FindAllFrom(re, s, Val(m).e)

FindAll(re, s) == FindAllFrom(re, s, 1)

\* str.strip()
RECURSIVE LStrip(_)
LStrip(s) == IF s # <<>> /\ Head(s) \in SpaceSet THEN LStrip(Tail(s)) ELSE s
RECURSIVE RStrip(_)
RStrip(s) ==
    IF s # <<>> /\ s[Len(s)] \in SpaceSet THEN RStrip(SubSeq(s, 1, Len(s) - 1)) ELSE s
Strip(s) == LStrip(RStrip(s))

\* re.sub(r"\s+", "", s) and str.replace(c, "")
Remove(s, S) == SelectSeq(s, LAMBDA c : c \notin S)

\* match.group(1).strip() of a match m, None without a match
StrippedGroup(text, m) == IF m = None THEN None ELSE Some(Strip(Group1(text, Val(m))))

_first_match(pattern, text) == StrippedGroup(text, Search(pattern, text))

-----------------------------------------------------------------------------
(* The patterns *)

w_invoice == <<"i", "n", "v", "o", "i", "c", "e">>
w_number == <<"n", "u", "m", "b", "e", "r">>
w_no == <<"n", "o">>
w_inv == <<"i", "n", "v">>
w_facture == <<"f", "a", "c", "t", "u", "r", "e">>
w_rechnungsnummer == <<"r", "e", "c", "h", "n", "u", "n", "g", "s", "n", "u", "m", "m", "e", "r">>
w_rechnung == <<"r", "e", "c", "h", "n", "u", "n", "g">>
w_nr == <<"n", "r">>
w_belegnummer == <<"b", "e", "l", "e", "g", "n", "u", "m", "m", "e", "r">>
w_vorgangsnummer == <<"v", "o", "r", "g", "a", "n", "g", "s", "n", "u", "m", "m", "e", "r">>
w_date == <<"d", "a", "t", "e">>
w_rechnungsdatum == <<"r", "e", "c", "h", "n", "u", "n", "g", "s", "d", "a", "t", "u", "m">>
w_total == <<"t", "o", "t", "a", "l">>
w_amount == <<"a", "m", "o", "u", "n", "t">>
w_due == <<"d", "u", "e">>
w_gesamtbetrag == <<"g", "e", "s", "a", "m", "t", "b", "e", "t", "r", "a", "g">>
w_rechnungsbetrag == <<"r", "e", "c", "h", "n", "u", "n", "g", "s", "b", "e", "t", "r", "a", "g">>
w_zu == <<"z", "u">>
w_zahlen == <<"z", "a", "h", "l", "e", "n">>
w_summe == <<"s", "u", "m", "m", "e">>

WS == Set(SpaceSet)
Digit == Set(DigitSet)
Dot == Set({"."})
DashOrSlash == Set({"-", "/"})
\* \s*[:#]?\s* between a label and its value
LabelGap == <<Star(WS), Opt(Set({":", "#"})), Star(WS)>>

invoice_number_pattern ==
    Seq_(<<Alt(<<Seq_(<<CiWord(w_invoice), Star(WS), CiWord(w_number)>>),
                 Seq_(<<CiWord(w_invoice), Star(WS), CiWord(w_no), Opt(Dot)>>),
                 Seq_(<<CiWord(w_inv), Dot, Star(WS), CiWord(w_no), Opt(Dot)>>),
                 Seq_(<<CiWord(w_facture), Star(WS), CiWord(w_no), Opt(Dot)>>),
                 CiWord(w_rechnungsnummer),
                 Seq_(<<CiWord(w_rechnung), Star(Set({"-"} \cup SpaceSet)),
                        CiWord(w_nr), Opt(Dot)>>),
                 CiWord(w_belegnummer),
                 CiWord(w_vorgangsnummer)>>)>>
         \o LabelGap
         \o <<Group(Plus(Set(LetterSet \cup DigitSet \cup {"-", "/"})))>>)

invoice_date_pattern ==
    Seq_(<<Alt(<<Seq_(<<CiWord(w_invoice), Star(WS), CiWord(w_date)>>),
                 CiWord(w_date),
                 CiWord(w_rechnungsdatum)>>)>>
         \o LabelGap
         \o <<Group(Alt(<<
                Seq_(<<Times(Digit, 4), DashOrSlash, Times(Digit, 2),
                       DashOrSlash, Times(Digit, 2)>>),
                Seq_(<<Times(Digit, 2), DashOrSlash, Times(Digit, 2),
                       DashOrSlash, Times(Digit, 4)>>),
                Seq_(<<Times(Digit, 2), Dot, Times(Digit, 2), Dot,
                       Times(Digit, 4)>>)>>))>>)

total_amount_pattern ==
    Seq_(<<Alt(<<Seq_(<<CiWord(w_total), Star(WS), CiWord(w_amount)>>),
                 Seq_(<<CiWord(w_amount), Star(WS), CiWord(w_due)>>),
                 CiWord(w_total),
                 CiWord(w_gesamtbetrag),
                 CiWord(w_rechnungsbetrag),
                 Seq_(<<CiWord(w_zu), Star(WS), CiWord(w_zahlen)>>),
                 CiWord(w_summe)>>)>>
         \o LabelGap
         \o <<Group(Seq_(<<Digit, Star(Set(DigitSet \cup SpaceSet \cup {".", ","}))>>))>>)

filename_amount_pattern ==
    Group(Alt(<<
        Seq_(<<Rep(Digit, 1, 3),
               Star(Seq_(<<Set({".", "_"}), Times(Digit, 3)>>)),
               Seq_(<<Set({","}), Times(Digit, 2)>>)>>),
        Seq_(<<Plus(Digit), Opt(Seq_(<<Set({","}), Times(Digit, 2)>>))>>)>>))

iban_pattern ==
    Seq_(<<WordBoundary,
           Group(Seq_(<<Times(Set(UpperSet), 2),
                        Rep(Set(DigitSet \cup UpperSet \cup SpaceSet),
                            IbanShapeMin, IbanShapeMax)>>)),
           WordBoundary>>)

bic_pattern ==
    Seq_(<<WordBoundary,
           Group(Seq_(<<Times(Set(UpperSet), 6),
                        Times(Set(UpperSet \cup DigitSet), 2),
                        Opt(Times(Set(UpperSet \cup DigitSet), 3))>>)),
           WordBoundary>>)

-----------------------------------------------------------------------------
(* Amounts *)

\* float(s) for s over digits, ".", "_" and white space (the characters the
\* patterns let through): None for ValueError, else Some of the numeral's
\* value as [int, frac], the digits before and after the point without
\* leading and trailing zeros.  Rounding to 64 bits is not modelled.
RECURSIVE DropLeadingZeros(_)
DropLeadingZeros(ds) ==
    IF ds # <<>> /\ Head(ds) = "0" THEN DropLeadingZeros(Tail(ds)) ELSE ds
RECURSIVE DropTrailingZeros(_)
DropTrailingZeros(ds) ==
    IF ds # <<>> /\ ds[Len(ds)] = "0"
    THEN DropTrailingZeros(SubSeq(ds, 1, Len(ds) - 1)) ELSE ds

Count(s, c) == Cardinality({i \in DOMAIN s : s[i] = c})

ParseFloat(s) ==
    LET t == Strip(s)
        dots == {i \in DOMAIN t : t[i] = "."}
        point == IF dots = {} THEN Len(t) + 1 ELSE CHOOSE i \in dots : TRUE
        digitAt(i) == i >= 1 /\ i <= Len(t) /\ t[i] \in DigitSet
        wellFormed ==
            /\ \A i \in DOMAIN t : t[i] \in DigitSet \cup {".", "_"}
            /\ Cardinality(dots) <= 1
            /\ \E i \in DOMAIN t : t[i] \in DigitSet
            /\ \A i \in DOMAIN t : t[i] = "_" => digitAt(i - 1) /\ digitAt(i + 1)
    IN  IF ~wellFormed THEN None
        ELSE Some([int |-> DropLeadingZeros(Remove(SubSeq(t, 1, point - 1), {"_"})),
                   frac |-> DropTrailingZeros(Remove(SubSeq(t, point + 1, Len(t)), {"_"}))])

\* x > 0, x <= 0 and bool(x) of a float; no numeral here carries a sign
IsPositive(x) == x.int # <<>> \/ x.frac # <<>>

Replace(s, c, d) == [i \in DOMAIN s |-> IF s[i] = c THEN d ELSE s[i]]

\* a reading in which a dot is always a thousands separator
DecimalisedDroppingDots(cleaned) == Replace(Remove(cleaned, {"."}), ",", ".")

\* lines 95-97: with a comma, dots are dropped and the comma becomes the point
Decimalised(cleaned) ==
    IF \E i \in DOMAIN cleaned : cleaned[i] = ","
    THEN Replace(Remove(cleaned, {"."}), ",", ".")
    ELSE cleaned

\* a normalizer that strips the ends and leaves blanks inside the string
_normalize_amount_keeping_blanks(raw) == ParseFloat(Decimalised(Strip(raw)))

_normalize_amount(raw) ==
    ParseFloat(Decimalised(Remove(Remove(Strip(raw), {"nbsp"}), {" "})))

\* _normalize_amount(match.group(1)) of a match m, None without a match
NormalizedGroup(file_name, m) ==
    IF m = None THEN None ELSE _normalize_amount(Group1(file_name, Val(m)))

_amount_from_filename(file_name) ==
    NormalizedGroup(file_name, Search(filename_amount_pattern, file_name))

-----------------------------------------------------------------------------
(* IBAN and BIC selection *)

_clean_iban(raw_iban) == Remove(raw_iban, SpaceSet)

\* the loop of _select_iban over the matches findall returned
RECURSIVE FirstValidIban(_)
RECURSIVE FirstValidIbanFrom(_, _)
FirstValidIban(matches) ==
    IF matches = <<>> THEN None
    ELSE FirstValidIbanFrom(_clean_iban(Head(matches)), Tail(matches))
FirstValidIbanFrom(candidate, rest) ==
    IF candidate # <<>> /\ _is_valid_iban(candidate) THEN Some(candidate)
    ELSE FirstValidIban(rest)

_select_iban(text) == FirstValidIban(FindAll(iban_pattern, Upper(text)))

w_DESCRIPTION == <<"D", "E", "S", "C", "R", "I", "P", "T", "I", "O", "N">>
w_SECURITY == <<"S", "E", "C", "U", "R", "I", "T", "Y">>
BicBanned == {w_DESCRIPTION, w_SECURITY}
BicShort == 8
BicLong == 11

RECURSIVE FirstBic(_)
FirstBic(matches) ==
    IF matches = <<>> THEN None
    ELSE IF Head(matches) \in BicBanned THEN FirstBic(Tail(matches))
    ELSE IF Len(Head(matches)) \notin {BicShort, BicLong} THEN FirstBic(Tail(matches))
    ELSE Some(Head(matches))

_select_bic(text) == FirstBic(FindAll(bic_pattern, Upper(text)))

-----------------------------------------------------------------------------
(* Error codes.  A code is the string prefix, or prefix + ":" + detail     *)
(* when detail is Some(d) (an f-string of the program).                    *)

Code(prefix) == [prefix |-> prefix, detail |-> None]
Tagged(prefix, d) == [prefix |-> prefix, detail |-> Some(d)]

w_EUR == <<"E", "U", "R">>
w_unknown == <<"u", "n", "k", "n", "o", "w", "n">>

-----------------------------------------------------------------------------
(* Field extraction and classification *)

\* lines 238-257: the remaining codes and the result, from the values the
\* body of _parse_fields has computed
FieldsAndErrors(invoice_number, invoice_date, total_amount, iban, bic, from_body) ==
    [fields |-> [invoice_number |-> invoice_number,
                 invoice_date |-> invoice_date,
                 total_amount |-> total_amount,
                 currency |-> Some(w_EUR),
                 iban |-> iban,
                 bic |-> bic],
     parse_errors |->
        (IF iban = None THEN <<Code("iban_missing_or_invalid")>> ELSE <<>>)
        \o (IF from_body
            THEN (IF total_amount = None THEN <<Code("total_amount_invalid")>> ELSE <<>>)
            ELSE (IF total_amount = None THEN <<Code("total_amount_missing")>>
                  ELSE <<Code("total_amount_from_filename")>>))
        \o (IF invoice_number = None THEN <<Code("invoice_number_missing")>> ELSE <<>>)
        \o (IF invoice_date = None THEN <<Code("invoice_date_missing")>> ELSE <<>>)
        \o (IF total_amount # None /\ ~IsPositive(Val(total_amount))
            THEN <<Code("total_amount_non_positive")>> ELSE <<>>)]

\* a fallback to the file name also when the amount the body shows fails to
\* normalize
FieldsFromMatchesFallingBack(invoice_number, invoice_date, raw, iban, bic, file_name) ==
    FieldsAndErrors(invoice_number, invoice_date,
                    IF raw # None /\ Val(raw) # <<>> /\ _normalize_amount(Val(raw)) # None
                    THEN _normalize_amount(Val(raw))
                    ELSE _amount_from_filename(file_name),
                    iban, bic,
                    raw # None /\ Val(raw) # <<>> /\ _normalize_amount(Val(raw)) # None)

\* lines 226-236: "if raw_amount:" is false for None and for the empty string
FieldsFromMatches(invoice_number, invoice_date, raw, iban, bic, file_name) ==
    FieldsAndErrors(invoice_number, invoice_date,
                    IF raw # None /\ Val(raw) # <<>>
                    THEN _normalize_amount(Val(raw))
                    ELSE _amount_from_filename(file_name),
                    iban, bic,
                    raw # None /\ Val(raw) # <<>>)

_parse_fields(text, file_name) ==
    FieldsFromMatches(_first_match(invoice_number_pattern, text),
                      _first_match(invoice_date_pattern, text),
                      _first_match(total_amount_pattern, text),
                      _select_iban(text),
                      _select_bic(text),
                      file_name)

\* the fields of a record built without parsing any text
EmptyFields ==
    [invoice_number |-> None, invoice_date |-> None, total_amount |-> None,
     currency |-> Some(w_EUR), iban |-> None, bic |-> None]

\* bool(x) of an Optional[str] and of an Optional[float]
TruthyStr(o) == o # None /\ Val(o) # <<>>
TruthyFloat(o) == o # None /\ IsPositive(Val(o))

PreviewLen == 1200

\* A file f: name (file_path.name), content (what its bytes hash to),
\* readable (whether open() succeeds when the hash is computed), kind
\* ("stored" by the upload endpoint, or "given" to the engine directly),
\* pdf_text and ocr (what text acquisition does: ok and text, or the
\* exception's message in detail).
Raised(what) == [raised |-> TRUE, what |-> what]
IsRaised(r) == r.raised

\* a readiness that also asks for the invoice number
PaymentReadyWithNumber(fields) ==
    /\ TruthyFloat(fields.total_amount)
    /\ TruthyStr(fields.iban)
    /\ TruthyStr(fields.currency)
    /\ TruthyStr(fields.invoice_number)

\* bool(total_amount and total_amount > 0 and iban and currency)
PaymentReady(fields) ==
    /\ TruthyFloat(fields.total_amount)
    /\ IsPositive(Val(fields.total_amount))
    /\ TruthyStr(fields.iban)
    /\ TruthyStr(fields.currency)

\* a status that follows payment_ready alone
StatusOfReadiness(payment_ready, fields) ==
    IF payment_ready THEN "ok" ELSE "needs_review"

\* a status that also asks for the invoice date
StatusWithDate(payment_ready, fields) ==
    IF payment_ready /\ TruthyStr(fields.invoice_number) /\ TruthyStr(fields.invoice_date)
    THEN "ok" ELSE "needs_review"

Status(payment_ready, fields) ==
    IF payment_ready /\ TruthyStr(fields.invoice_number) THEN "ok" ELSE "needs_review"

\* _file_sha256 raises when the file cannot be opened; _build_record calls
\* it while it builds the record
RecordWith(f, evidence_type, extraction_method, text, fields, parse_errors, payment_ready) ==
    IF ~f.readable THEN Raised("OSError")
    ELSE [raised |-> FALSE,
          file_name |-> f.name,
          sha256 |-> f.content,
          evidence_type |-> evidence_type,
          extraction_method |-> extraction_method,
          text_preview |-> SubSeq(text, 1, IF Len(text) < PreviewLen
                                            THEN Len(text) ELSE PreviewLen),
          invoice_number |-> fields.invoice_number,
          invoice_date |-> fields.invoice_date,
          total_amount |-> fields.total_amount,
          currency |-> fields.currency,
          iban |-> fields.iban,
          bic |-> fields.bic,
          status |-> Status(payment_ready, fields),
          payment_ready |-> payment_ready,
          parse_errors |-> parse_errors]

_build_record(f, evidence_type, extraction_method, text, fields, parse_errors) ==
    RecordWith(f, evidence_type, extraction_method, text, fields, parse_errors,
               PaymentReady(fields))

\* _build_record on the result p of _parse_fields, with the codes the caller
\* appends to p's
BuildParsed(f, evidence_type, extraction_method, text, p, appended) ==
    _build_record(f, evidence_type, extraction_method, text, p.fields,
                  p.parse_errors \o appended)

\* the text layer is short enough for parse_pdf to try OCR
OcrThreshold == 40
NeedsOcr(text) == Len(Strip(text)) < OcrThreshold

\* parse_pdf once the text layer has been read: the three returns of lines
\* 314-347, which differ in the text parsed, the labels and the appended code
\*   short text, OCR throws:  parse text,     pdf_scan / pdf_text, + ocr_error
\*   short text, OCR returns: parse ocr text, pdf_scan / ocr
\*   otherwise:               parse text,     pdf_text / pdf_text
ParsePdfText(f, text, short, ocr_ok) ==
    BuildParsed(f,
                IF short THEN "pdf_scan" ELSE "pdf_text",
                IF short /\ ocr_ok THEN "ocr" ELSE "pdf_text",
                IF short /\ ocr_ok THEN f.ocr.text ELSE text,
                _parse_fields(IF short /\ ocr_ok THEN f.ocr.text ELSE text, f.name),
                IF short /\ ~ocr_ok THEN <<Tagged("ocr_error", f.ocr.detail)>> ELSE <<>>)

\* a parse_pdf that, when the text layer cannot be read, parses an empty text
\* like any other, file-name fallback included
parse_pdf_parsing_nothing(f) ==
    IF ~f.pdf_text.ok
    THEN BuildParsed(f, "pdf_text", "pdf_text", <<>>, _parse_fields(<<>>, f.name),
                     <<Tagged("pdf_read_error", f.pdf_text.detail)>>)
    ELSE ParsePdfText(f, f.pdf_text.text, NeedsOcr(f.pdf_text.text), f.ocr.ok)

parse_pdf(f) ==
    IF ~f.pdf_text.ok
    THEN _build_record(f, "pdf_text", "pdf_text", <<>>, EmptyFields,
                       <<Tagged("pdf_read_error", f.pdf_text.detail)>>)
    ELSE ParsePdfText(f, f.pdf_text.text, NeedsOcr(f.pdf_text.text), f.ocr.ok)

parse_image(f) ==
    IF ~f.ocr.ok
    THEN _build_record(f, "image", "ocr", <<>>, EmptyFields,
                       <<Tagged("ocr_error", f.ocr.detail)>>)
    ELSE BuildParsed(f, "image", "ocr", f.ocr.text,
                     _parse_fields(f.ocr.text, f.name), <<>>)

parse_xml(f) ==
    _build_record(f, "xml", "xml", <<>>, EmptyFields,
                  <<Code("xml_parsing_not_implemented")>>)

\* PurePath.suffix: from the last dot of the name, unless that dot is the
\* first or the last character
Suffix(name) ==
    LET dots == {i \in DOMAIN name : name[i] = "."}
        last == CHOOSE i \in dots : \A j \in dots : j <= i
    IN  IF dots = {} THEN <<>>
        ELSE IF last = 1 \/ last = Len(name) THEN <<>>
        ELSE SubSeq(name, last, Len(name))

\* str.lower(), character by character
LowerChar(c) == IF c \in UpperSet THEN LowerChars[IndexOf(c, UpperChars)] ELSE c
Lower(s) == [i \in DOMAIN s |-> LowerChar(s[i])]

sfx_pdf == <<".", "p", "d", "f">>
sfx_png == <<".", "p", "n", "g">>
sfx_jpg == <<".", "j", "p", "g">>
sfx_jpeg == <<".", "j", "p", "e", "g">>
sfx_xml == <<".", "x", "m", "l">>

Dispatch(f, suffix) ==
    IF suffix = sfx_pdf THEN parse_pdf(f)
    ELSE IF suffix \in {sfx_png, sfx_jpg, sfx_jpeg} THEN parse_image(f)
    ELSE IF suffix = sfx_xml THEN parse_xml(f)
    ELSE _build_record(f, "unknown", "unknown", <<>>, EmptyFields,
                       <<Tagged("unsupported_format",
                                IF suffix # <<>> THEN suffix ELSE w_unknown)>>)

detect_and_parse(f) == Dispatch(f, Lower(Suffix(f.name)))

-----------------------------------------------------------------------------
(* Remediation advice *)

HasCode(errors, prefix) == \E e \in errors : e.prefix = prefix /\ e.detail = None
\* any(error.startswith(prefix) ...): every code the program emits that
\* starts with one of these prefixes has it as its prefix field
HasPrefix(errors, prefix) == \E e \in errors : e.prefix = prefix

\* sep.join(parts), as the sequence of the pieces of the resulting string
RECURSIVE JoinWith(_, _)
JoinWith(sep, parts) ==
    IF Len(parts) <= 1 THEN parts
    ELSE <<parts[1], sep>> \o JoinWith(sep, Tail(parts))

\* an advice that walks the list, one action per entry in the list's order
ActionOfEntry(e) ==
    IF e.detail = None /\ e.prefix \in {"iban_missing", "iban_missing_or_invalid"}
    THEN <<"Fill IBAN">>
    ELSE IF e.detail = None /\ e.prefix \in {"total_amount_missing", "total_amount_invalid"}
    THEN <<"Fill amount">>
    ELSE IF e.detail = None /\ e.prefix = "invoice_number_missing"
    THEN <<"Fill invoice number">>
    ELSE IF e.detail = None /\ e.prefix = "invoice_date_missing"
    THEN <<"Fill invoice date">>
    ELSE IF e.prefix = "pdf_read_error" THEN <<"Check PDF file">>
    ELSE IF e.prefix = "ocr_error" THEN <<"Review scan quality">>
    ELSE IF e.prefix = "unsupported_format" THEN <<"Convert to PDF">>
    ELSE IF e.prefix = "non_pdf_evidence" THEN <<"Provide PDF version">>
    ELSE <<>>
RECURSIVE ActionsOfEntries(_)
ActionsOfEntries(parse_errors) ==
    IF parse_errors = <<>> THEN <<>>
    ELSE ActionOfEntry(Head(parse_errors)) \o ActionsOfEntries(Tail(parse_errors))
_suggested_action_per_entry(parse_errors) ==
    JoinWith(", ", IF ActionsOfEntries(parse_errors) = <<>>
                   THEN <<"Review evidence manually">>
                   ELSE ActionsOfEntries(parse_errors))

_suggested_action(parse_errors) ==
    LET errors == Range(parse_errors)
        actions ==
            (IF HasCode(errors, "iban_missing") \/ HasCode(errors, "iban_missing_or_invalid")
             THEN <<"Fill IBAN">> ELSE <<>>)
            \o (IF HasCode(errors, "total_amount_missing")
                   \/ HasCode(errors, "total_amount_invalid")
                THEN <<"Fill amount">> ELSE <<>>)
            \o (IF HasCode(errors, "invoice_number_missing")
                THEN <<"Fill invoice number">> ELSE <<>>)
            \o (IF HasCode(errors, "invoice_date_missing")
                THEN <<"Fill invoice date">> ELSE <<>>)
            \o (IF HasPrefix(errors, "pdf_read_error") THEN <<"Check PDF file">> ELSE <<>>)
            \o (IF HasPrefix(errors, "ocr_error") THEN <<"Review scan quality">> ELSE <<>>)
            \o (IF HasPrefix(errors, "unsupported_format")
                THEN <<"Convert to PDF">> ELSE <<>>)
            \o (IF HasPrefix(errors, "non_pdf_evidence")
                THEN <<"Provide PDF version">> ELSE <<>>)
    \* ", ".join(actions): the pieces of the string, in order
    IN  JoinWith(", ", IF actions = <<>> THEN <<"Review evidence manually">> ELSE actions)

-----------------------------------------------------------------------------
(* The upload endpoint's naming of the stored file (src/app.py) *)

w_evidence == <<"e", "v", "i", "d", "e", "n", "c", "e">>

\* names are given without directories, so Path(filename).name is the name
_safe_filename(filename) == IF filename = <<>> THEN w_evidence ELSE filename

\* uuid4().hex: 32 hexadecimal digits, the 13th "4" (the version) and the
\* 17th one of 8, 9, a, b (the variant); the others are random, here all h
UuidHexLen == 32
UuidVersionAt == 13
UuidVariantAt == 17
Uuid4Hex(h, y) ==
    [i \in 1..UuidHexLen |->
        IF i = UuidVersionAt THEN "4" ELSE IF i = UuidVariantAt THEN y ELSE h]

\* the name of the file _write_upload writes
StoredName(hex, filename) == hex \o <<"_">> \o filename

-----------------------------------------------------------------------------
(* Documents: the text a file carries is some of these lines, joined by    *)
(* newlines in this order: number, date, amount, currency, IBAN, and then  *)
(* up to MaxFiller closing lines.                                          *)

\* 'Invoice Number: INV-42'
l_number ==
    <<"I", "n", "v", "o", "i", "c", "e", " ", "N", "u", "m", "b", "e", "r",
      ":", " ", "I", "N", "V", "-", "4", "2">>
\* 'Date: 2024-01-05'
l_date ==
    <<"D", "a", "t", "e", ":", " ", "2", "0", "2", "4", "-", "0", "1", "-",
      "0", "5">>
\* 'Total Amount: 1.250,00'
l_amount ==
    <<"T", "o", "t", "a", "l", " ", "A", "m", "o", "u", "n", "t", ":", " ",
      "1", ".", "2", "5", "0", ",", "0", "0">>
\* 'Total: 0,00'
l_amount_zero ==
    <<"T", "o", "t", "a", "l", ":", " ", "0", ",", "0", "0">>
\* 'Summe 1.2.3'
l_amount_bad ==
    <<"S", "u", "m", "m", "e", " ", "1", ".", "2", ".", "3">>
\* 'EUR'
l_currency ==
    <<"E", "U", "R">>
\* 'IBAN: DE89370400440532013000'
l_iban_colon ==
    <<"I", "B", "A", "N", ":", " ", "D", "E", "8", "9", "3", "7", "0", "4",
      "0", "0", "4", "4", "0", "5", "3", "2", "0", "1", "3", "0", "0", "0">>
\* 'IBAN DE89370400440532013000'
l_iban_space ==
    <<"I", "B", "A", "N", " ", "D", "E", "8", "9", "3", "7", "0", "4", "0",
      "0", "4", "4", "0", "5", "3", "2", "0", "1", "3", "0", "0", "0">>
\* 'DE89 3704 0044 0532 0130 00'
l_iban_groups ==
    <<"D", "E", "8", "9", " ", "3", "7", "0", "4", " ", "0", "0", "4", "4",
      " ", "0", "5", "3", "2", " ", "0", "1", "3", "0", " ", "0", "0">>
\* 'IBAN: DE00370400440532013000'
l_iban_wrong ==
    <<"I", "B", "A", "N", ":", " ", "D", "E", "0", "0", "3", "7", "0", "4",
      "0", "0", "4", "4", "0", "5", "3", "2", "0", "1", "3", "0", "0", "0">>
\* 'NO9386011117947'
l_iban_short ==
    <<"N", "O", "9", "3", "8", "6", "0", "1", "1", "1", "1", "7", "9", "4",
      "7">>
\* 'Thanks'
l_filler ==
    <<"T", "h", "a", "n", "k", "s">>

NumberLines == <<l_number>>
DateLines == <<l_date>>
AmountLines == <<l_amount, l_amount_zero, l_amount_bad>>
CurrencyLines == <<l_currency>>
IbanLines == <<l_iban_colon, l_iban_space, l_iban_groups, l_iban_wrong, l_iban_short>>

MaxFiller == 1

\* the k-th line of a library, or no line for k = 0
Pick(lib, k) == IF k = 0 THEN <<>> ELSE <<lib[k]>>

RECURSIVE Join(_)
Join(lines) ==
    IF lines = <<>> THEN <<>>
    ELSE IF Len(lines) = 1 THEN lines[1]
    ELSE lines[1] \o <<"\n">> \o Join(Tail(lines))

Fillers(k) == [i \in 1..k |-> l_filler]

TextOf(n, dt, a, c, i, k) ==
    Join(Pick(NumberLines, n) \o Pick(DateLines, dt) \o Pick(AmountLines, a)
         \o Pick(CurrencyLines, c) \o Pick(IbanLines, i) \o Fillers(k))

Texts ==
    {TextOf(n, dt, a, c, i, k) :
        n \in 0..Len(NumberLines), dt \in 0..Len(DateLines),
        a \in 0..Len(AmountLines), c \in 0..Len(CurrencyLines),
        i \in 0..Len(IbanLines), k \in 0..MaxFiller}

\* texts in which no pattern of the engine finds anything
NoFieldTexts == {TextOf(0, 0, 0, 0, 0, k) : k \in 0..MaxFiller}

\* what an OCR run returns when it succeeds
OcrTexts ==
    {TextOf(1, 1, 1, 1, 1, 0), TextOf(1, 0, 1, 1, 1, 0), TextOf(0, 0, 0, 0, 0, 1), <<>>}

-----------------------------------------------------------------------------
(* Files *)

\* what a text acquisition (_extract_text_from_pdf, _ocr_pdf, _ocr_image)
\* does with a file: returns text, or raises an exception with a message
Returns(text) == [ok |-> TRUE, text |-> text, detail |-> <<>>]
Throws(detail) == [ok |-> FALSE, text |-> <<>>, detail |-> detail]

\* 'corrupted xref'
m_corrupted_xref ==
    <<"c", "o", "r", "r", "u", "p", "t", "e", "d", " ", "x", "r", "e", "f">>
\* 'tesseract is not installed'
m_no_tesseract ==
    <<"t", "e", "s", "s", "e", "r", "a", "c", "t", " ", "i", "s", " ", "n",
      "o", "t", " ", "i", "n", "s", "t", "a", "l", "l", "e", "d">>
\* 'a.pdf'
n_a_pdf ==
    <<"a", ".", "p", "d", "f">>
\* 'inv_2024.pdf'
n_inv_2024_pdf ==
    <<"i", "n", "v", "_", "2", "0", "2", "4", ".", "p", "d", "f">>
\* 'scan.png'
n_scan_png ==
    <<"s", "c", "a", "n", ".", "p", "n", "g">>
\* 'photo.JPG'
n_photo_JPG ==
    <<"p", "h", "o", "t", "o", ".", "J", "P", "G">>
\* 'x.xml'
n_x_xml ==
    <<"x", ".", "x", "m", "l">>
\* 'notes.txt'
n_notes_txt ==
    <<"n", "o", "t", "e", "s", ".", "t", "x", "t">>
\* 'DATA.CSV'
n_DATA_CSV ==
    <<"D", "A", "T", "A", ".", "C", "S", "V">>
\* 'README'
n_README ==
    <<"R", "E", "A", "D", "M", "E">>

File(name, content, readable, pdf_text, ocr) ==
    [name |-> name, content |-> content, readable |-> readable,
     pdf_text |-> pdf_text, ocr |-> ocr]

OcrOutcomes == {Throws(m_no_tesseract)} \cup {Returns(t) : t \in OcrTexts}

\* PDF files whose text layer can be read; OCR is only run, and only then
\* part of the file's description, when the text layer is short
OcrOutcomesFor(t) == IF NeedsOcr(t) THEN OcrOutcomes ELSE {Throws(m_no_tesseract)}
PdfFilesNamed(names, texts) ==
    UNION {{File(n, "pdf", TRUE, Returns(t), o) : n \in names, o \in OcrOutcomesFor(t)} :
            t \in texts}

\* PDF files whose text layer cannot be read; one of them cannot be opened
\* at all, the others are damaged but readable byte for byte
BrokenPdfFiles(names) ==
    {File(n, "broken pdf", r, Throws(m_corrupted_xref), Throws(m_no_tesseract)) :
        n \in names, r \in BOOLEAN}

ImageFilesNamed(names, texts) ==
    {File(n, "image", TRUE, Throws(m_corrupted_xref), Returns(t)) : n \in names, t \in texts}
    \cup {File(n, "bad image", r, Throws(m_corrupted_xref), Throws(m_no_tesseract)) :
            n \in names, r \in BOOLEAN}

\* files the engine never asks a text of
OtherFilesNamed(names) ==
    {File(n, "other", r, Throws(m_corrupted_xref), Throws(m_no_tesseract)) :
        n \in names, r \in BOOLEAN}

\* the paths detect_and_parse is called with directly
GivenFiles ==
    PdfFilesNamed({n_a_pdf, n_inv_2024_pdf}, Texts)
    \cup BrokenPdfFiles({n_a_pdf, n_inv_2024_pdf})
    \cup ImageFilesNamed({n_scan_png}, Texts)
    \cup ImageFilesNamed({n_photo_JPG}, NoFieldTexts)
    \cup OtherFilesNamed({n_x_xml, n_notes_txt, n_DATA_CSV, n_README})

\* what a client uploads: a file name (empty when the client gives none)
\* and bytes, described like a file
UploadTexts == NoFieldTexts \cup OcrTexts
Uploads ==
    PdfFilesNamed({n_a_pdf}, UploadTexts)
    \cup BrokenPdfFiles({n_a_pdf})
    \cup ImageFilesNamed({n_scan_png}, UploadTexts)
    \cup OtherFilesNamed({n_x_xml, n_notes_txt, <<>>})

HexFill == {"a", "7"}
HexVariant == {"8", "b"}
UuidHexes == {Uuid4Hex(h, y) : h \in HexFill, y \in HexVariant}

\* _write_upload: the bytes are written under a fresh name and can be read
_write_upload(u, hex, filename) ==
    [u EXCEPT !.name = StoredName(hex, filename), !.readable = TRUE]

-----------------------------------------------------------------------------
(* Spec: one call of detect_and_parse, directly or by way of an upload *)

\* upload requests the server receives, each with a run of its own
MaxUploads == 2
UploadRequests == 1..MaxUploads

\* latest_records = [] and latest_exports = None; no run has number 0
NoRecords == [run |-> 0, records |-> <<>>]
NotReceived == [at |-> "waiting", paths |-> <<>>]

Idle ==
    /\ file = None /\ outcome = None
    /\ file_paths = <<>> /\ next_index = 0 /\ records = <<>> /\ returned = "idle"
    /\ iban_in = <<>> /\ iban_ok = FALSE
    /\ raw_amount = <<>> /\ amount_out = None
    /\ exports = None
    /\ errors_in = <<>> /\ action_out = <<>>
    /\ latest_records = NoRecords /\ latest_exports = None
    /\ upload_at = [u \in UploadRequests |-> NotReceived]
    /\ answer = None

Init == pc = "idle" /\ Idle

DetectAndParse ==
    /\ pc = "idle"
    /\ \E f \in GivenFiles :
        /\ file' = Some(f)
        /\ outcome' = Some(detect_and_parse(f))
    /\ pc' = "parsed"
    /\ UNCHANGED <<exports, advice_vars, web_vars>>
    /\ UNCHANGED <<file_paths, next_index, records, returned,
                   iban_in, iban_ok, raw_amount, amount_out>>

\* upload() with one file: the loop body stores it, whatever its suffix,
\* and process_evidence_files parses the stored path
Upload ==
    /\ pc = "idle"
    /\ \E u \in Uploads, hex \in UuidHexes :
        LET f == _write_upload(u, hex, _safe_filename(u.name))
        IN  /\ file' = Some(f)
            /\ outcome' = Some(detect_and_parse(f))
    /\ pc' = "uploaded"
    /\ UNCHANGED <<exports, advice_vars, web_vars>>
    /\ UNCHANGED <<file_paths, next_index, records, returned,
                   iban_in, iban_ok, raw_amount, amount_out>>

Return ==
    /\ pc \in {"parsed", "uploaded"}
    /\ pc' = "idle"
    /\ file' = None /\ outcome' = None
    /\ UNCHANGED <<exports, advice_vars, web_vars>>
    /\ UNCHANGED <<file_paths, next_index, records, returned,
                   iban_in, iban_ok, raw_amount, amount_out>>

Next == DetectAndParse \/ Upload \/ Return

Spec == Init /\ [][Next]_vars

-----------------------------------------------------------------------------
(* SpecBatch: parse_invoice_files over a list of paths *)

MaxFiles == 2

\* one file of each kind the loop can meet
BatchFiles ==
    {File(n_a_pdf, "pdf", TRUE, Returns(TextOf(1, 1, 1, 1, 1, 0)), Throws(m_no_tesseract)),
     File(n_inv_2024_pdf, "pdf", TRUE, Returns(l_iban_short), Throws(m_no_tesseract)),
     File(n_a_pdf, "broken pdf", TRUE, Throws(m_corrupted_xref), Throws(m_no_tesseract)),
     File(n_inv_2024_pdf, "broken pdf", FALSE, Throws(m_corrupted_xref),
          Throws(m_no_tesseract)),
     File(n_scan_png, "bad image", TRUE, Throws(m_corrupted_xref), Throws(m_no_tesseract)),
     File(n_notes_txt, "other", TRUE, Throws(m_corrupted_xref), Throws(m_no_tesseract)),
     File(n_x_xml, "other", TRUE, Throws(m_corrupted_xref), Throws(m_no_tesseract))}

PathLists == UNION {[1..n -> BatchFiles] : n \in 0..MaxFiles}

\* the call: records = []
ParseInvoiceFiles ==
    /\ returned = "idle"
    /\ \E paths \in PathLists : file_paths' = paths
    /\ next_index' = 1
    /\ records' = <<>>
    /\ returned' = "running"
    /\ UNCHANGED <<exports, advice_vars, web_vars>>
    /\ UNCHANGED <<pc, file, outcome, iban_in, iban_ok, raw_amount, amount_out>>

\* what one iteration leaves, given what detect_and_parse did with the path:
\* an exception leaves the loop and the function
AfterParse(r) ==
    IF IsRaised(r)
    THEN /\ returned' = "raised"
         /\ UNCHANGED <<records, next_index>>
    ELSE /\ records' = Append(records, r)
         /\ next_index' = next_index + 1
         /\ UNCHANGED returned

\* one iteration: records.append(detect_and_parse(file_path))
ParseNextFile ==
    /\ returned = "running"
    /\ next_index <= Len(file_paths)
    /\ AfterParse(detect_and_parse(file_paths[next_index]))
    /\ UNCHANGED <<exports, advice_vars, web_vars>>
    /\ UNCHANGED <<pc, file, outcome, file_paths, iban_in, iban_ok, raw_amount, amount_out>>

\* return records
ReturnRecords ==
    /\ returned = "running"
    /\ next_index > Len(file_paths)
    /\ returned' = "returned"
    /\ UNCHANGED <<exports, advice_vars, web_vars>>
    /\ UNCHANGED <<pc, file, outcome, file_paths, next_index, records,
                   iban_in, iban_ok, raw_amount, amount_out>>

NextBatch == ParseInvoiceFiles \/ ParseNextFile \/ ReturnRecords

SpecBatch == Init /\ [][NextBatch]_vars

-----------------------------------------------------------------------------
(* SpecIban: _is_valid_iban on its own *)

\* 'DE89370400440532013000'
i_DE ==
    <<"D", "E", "8", "9", "3", "7", "0", "4", "0", "0", "4", "4", "0", "5",
      "3", "2", "0", "1", "3", "0", "0", "0">>
\* 'GB82WEST12345698765432'
i_GB ==
    <<"G", "B", "8", "2", "W", "E", "S", "T", "1", "2", "3", "4", "5", "6",
      "9", "8", "7", "6", "5", "4", "3", "2">>
\* 'NO9386011117947'
i_NO ==
    <<"N", "O", "9", "3", "8", "6", "0", "1", "1", "1", "1", "7", "9", "4",
      "7">>
\* 'NL91ABNA0417164300'
i_NL ==
    <<"N", "L", "9", "1", "A", "B", "N", "A", "0", "4", "1", "7", "1", "6",
      "4", "3", "0", "0">>
\* 'MT84MALT011000012345MTLCAST001S'
i_MT ==
    <<"M", "T", "8", "4", "M", "A", "L", "T", "0", "1", "1", "0", "0", "0",
      "0", "1", "2", "3", "4", "5", "M", "T", "L", "C", "A", "S", "T", "0",
      "0", "1", "S">>
\* 'XK2012AB01234567890123456789ABCDEF'
i_len34 ==
    <<"X", "K", "2", "0", "1", "2", "A", "B", "0", "1", "2", "3", "4", "5",
      "6", "7", "8", "9", "0", "1", "2", "3", "4", "5", "6", "7", "8", "9",
      "A", "B", "C", "D", "E", "F">>
\* 'XK4912AB01234567890123456789ABCDEFG'
i_len35 ==
    <<"X", "K", "4", "9", "1", "2", "A", "B", "0", "1", "2", "3", "4", "5",
      "6", "7", "8", "9", "0", "1", "2", "3", "4", "5", "6", "7", "8", "9",
      "A", "B", "C", "D", "E", "F", "G">>
\* 'QA711234567890'
i_len14 ==
    <<"Q", "A", "7", "1", "1", "2", "3", "4", "5", "6", "7", "8", "9", "0">>

IbanBases == {i_DE, i_GB, i_NO, i_NL, i_MT, i_len34, i_len35, i_len14}

\* the characters a position of a base is replaced by, and how far from
\* either end of the base the replaced position may be
EditChars == {"0", "9", "A", "Z", "a", "-", " "}
MaxEditPos == 5

Edited(base, at, c) == [base EXCEPT ![at] = c]

IbanCandidates ==
    IbanBases
    \cup {Edited(b, at, c) : b \in IbanBases, at \in 1..MaxEditPos, c \in EditChars}
    \cup {Edited(b, Len(b) + 1 - at, c) :
            b \in IbanBases, at \in 1..MaxEditPos, c \in EditChars}
    \cup {Upto(i_DE, n) : n \in (IbanMinLen - MaxEditPos)..(IbanMinLen + MaxEditPos)}
    \cup {b \o Upto(i_DE, n) : b \in {i_MT, i_len34}, n \in 1..MaxEditPos}

IsValidIban ==
    /\ pc = "idle"
    /\ \E c \in IbanCandidates :
        /\ iban_in' = c
        /\ iban_ok' = _is_valid_iban(c)
    /\ pc' = "validated"
    /\ UNCHANGED <<exports, advice_vars, web_vars>>
    /\ UNCHANGED <<file, outcome, file_paths, next_index, records, returned,
                   raw_amount, amount_out>>

ForgetIban ==
    /\ pc = "validated"
    /\ pc' = "idle"
    /\ iban_in' = <<>> /\ iban_ok' = FALSE
    /\ UNCHANGED <<exports, advice_vars, web_vars>>
    /\ UNCHANGED <<file, outcome, file_paths, next_index, records, returned,
                   raw_amount, amount_out>>

NextIban == IsValidIban \/ ForgetIban

SpecIban == Init /\ [][NextIban]_vars

-----------------------------------------------------------------------------
(* SpecAmount: _normalize_amount on its own *)

\* '1234.56'
a_dot ==
    <<"1", "2", "3", "4", ".", "5", "6">>
\* '1.234,56'
a_european ==
    <<"1", ".", "2", "3", "4", ",", "5", "6">>
\* '1,234.56'
a_us ==
    <<"1", ",", "2", "3", "4", ".", "5", "6">>
\* '1 234,56'
a_spaced ==
    <<"1", " ", "2", "3", "4", ",", "5", "6">>
\* '1<nbsp>234,56'
a_nbsp ==
    <<"1", "nbsp", "2", "3", "4", ",", "5", "6">>
\* '1.234.56'
a_two_dots ==
    <<"1", ".", "2", "3", "4", ".", "5", "6">>
\* '1,2,3'
a_two_commas ==
    <<"1", ",", "2", ",", "3">>
\* '1250'
a_plain ==
    <<"1", "2", "5", "0">>

AmountExamples ==
    {a_dot, a_european, a_us, a_spaced, a_nbsp, a_two_dots, a_two_commas, a_plain}

AmountChars == {"0", "1", "5", ".", ",", " ", "nbsp"}
MaxAmountLen == 4

AmountInputs ==
    AmountExamples \cup UNION {[1..n -> AmountChars] : n \in 0..MaxAmountLen}

NormalizeAmount ==
    /\ pc = "idle"
    /\ \E raw \in AmountInputs :
        /\ raw_amount' = raw
        /\ amount_out' = _normalize_amount(raw)
    /\ pc' = "normalized"
    /\ UNCHANGED <<exports, advice_vars, web_vars>>
    /\ UNCHANGED <<file, outcome, file_paths, next_index, records, returned,
                   iban_in, iban_ok>>

ForgetAmount ==
    /\ pc = "normalized"
    /\ pc' = "idle"
    /\ raw_amount' = <<>> /\ amount_out' = None
    /\ UNCHANGED <<exports, advice_vars, web_vars>>
    /\ UNCHANGED <<file, outcome, file_paths, next_index, records, returned,
                   iban_in, iban_ok>>

NextAmount == NormalizeAmount \/ ForgetAmount

SpecAmount == Init /\ [][NextAmount]_vars

-----------------------------------------------------------------------------
(* Properties of the records of detect_and_parse (Spec) *)

\* a call has returned a record r == Val(outcome)
Produced == outcome # None /\ ~IsRaised(Val(outcome))

Present(o) == o # None

\* the value of an amount is greater than zero: one of its digits is not 0
GreaterThanZero(x) == \E i \in DOMAIN (x.int \o x.frac) : (x.int \o x.frac)[i] # "0"

\* ISO 7064 mod 97-10, stated on numbers: the value of a character, the
\* digits of the rearranged string, and their sum weighted by powers of ten
Worth(c) ==
    IF c \in DigitSet THEN (CHOOSE d \in 0..9 : DigitChars[d + 1] = c)
    ELSE 9 + (CHOOSE k \in 1..26 : UpperChars[k] = c)

RECURSIVE DigitsOf(_)
DigitsOf(s) ==
    IF s = <<>> THEN <<>>
    ELSE (IF Worth(Head(s)) < 10 THEN <<Worth(Head(s))>>
          ELSE <<Worth(Head(s)) \div 10, Worth(Head(s)) % 10>>) \o DigitsOf(Tail(s))

\* sum of ds[1..k] * 10^(position from the right) modulo 97, w the weight of ds[k]
RECURSIVE WeightedSum(_, _, _)
WeightedSum(ds, k, w) ==
    IF k = 0 THEN 0 ELSE (ds[k] * w + WeightedSum(ds, k - 1, (w * 10) % 97)) % 97

MovedToEnd(s) == SubSeq(s, 5, Len(s)) \o SubSeq(s, 1, 4)

WellFormedIban(s) ==
    /\ Len(s) >= 15 /\ Len(s) <= 34
    /\ s[1] \in UpperSet /\ s[2] \in UpperSet
    /\ \A i \in 3..Len(s) : s[i] \in UpperSet \cup DigitSet

Mod97Valid(s) ==
    /\ WellFormedIban(s)
    /\ WeightedSum(DigitsOf(MovedToEnd(s)), Len(DigitsOf(MovedToEnd(s))), 1) = 1

\* the text a record was parsed from with its invoice-number line taken
\* away, or put in front when it has none
NumberLineLen == Len(l_number)
HasNumberLine(text) == Len(text) >= NumberLineLen /\ SubSeq(text, 1, NumberLineLen) = l_number
OtherNumber(text) ==
    IF HasNumberLine(text)
    THEN SubSeq(text, NumberLineLen + 2, Len(text))
    ELSE IF text = <<>> THEN l_number ELSE l_number \o <<"\n">> \o text

\* the record was built from the fields _parse_fields found in a text
WasParsed(r) ==
    /\ r.evidence_type \in {"pdf_text", "pdf_scan", "image"}
    /\ ~HasPrefix(Range(r.parse_errors), "pdf_read_error")
    /\ ~(r.evidence_type = "image" /\ HasPrefix(Range(r.parse_errors), "ocr_error"))

\* C1: a record's payment_ready is true exactly when its total amount is
\* present and greater than zero, its IBAN is present (and then passes the
\* mod-97 check) and its currency is present; and the same text with the
\* invoice-number line added or taken away, under the same file name, is
\* parsed to fields of the same payment readiness.
C1_PaymentReadyIff ==
    Produced =>
        LET r == Val(outcome)
            twin == _parse_fields(OtherNumber(r.text_preview), r.file_name).fields
        IN  /\ r.payment_ready <=>
                  /\ Present(r.total_amount) /\ GreaterThanZero(Val(r.total_amount))
                  /\ Present(r.iban)
                  /\ Present(r.currency) /\ Val(r.currency) # <<>>
            /\ Present(r.iban) => Mod97Valid(Val(r.iban))
            /\ WasParsed(r)
               => /\ Present(twin.invoice_number) # Present(r.invoice_number)
                  /\ PaymentReady(twin) = r.payment_ready

\* a payment-ready record without an invoice number, held for review
C1_Witness ==
    /\ Produced
    /\ Val(outcome).payment_ready
    /\ ~Present(Val(outcome).invoice_number)
    /\ Val(outcome).status = "needs_review"

\* C2: a record's status is "ok" when it is payment-ready and has an invoice
\* number and "needs_review" otherwise; it takes no other value, and an "ok"
\* record is payment-ready.
C2_StatusIff ==
    Produced =>
        LET r == Val(outcome)
        IN  /\ r.status \in {"ok", "needs_review"}
            /\ r.status = "ok" <=> (r.payment_ready /\ Present(r.invoice_number))
            /\ r.status = "ok" => r.payment_ready

\* a payment-ready record with an invoice number, and so with status "ok"
C2_Witness ==
    /\ Produced
    /\ Val(outcome).status = "ok"
    /\ Val(outcome).payment_ready
    /\ Present(Val(outcome).invoice_number)

-----------------------------------------------------------------------------
(* Properties of _is_valid_iban (SpecIban) *)

\* the value of the first k digits of a numeral, for k small enough to count
MaxCounted == 8
RECURSIVE ValueOf(_, _)
ValueOf(ds, k) == IF k = 0 THEN 0 ELSE ValueOf(ds, k - 1) * 10 + ds[k]

Min(a, b) == IF a < b THEN a ELSE b

UppercaseWithoutSpace(s) == \A i \in DOMAIN s : s[i] \notin LowerSet \cup SpaceSet

\* C5: on a string without whitespace or lower-case letters, _is_valid_iban
\* answers true exactly when the length is 15..34, the first two characters
\* are letters, the rest is alphanumeric and the numeral of the string with
\* its first four characters moved to the end, letters written as 10..35, is
\* 1 modulo 97; and the digit-by-digit remainder of the code equals the
\* numeral's residue: that of the weighted digit sum for the whole numeral,
\* and that of the number itself for every prefix of up to eight digits.
C5_ValidIffMod97 ==
    pc = "validated" /\ UppercaseWithoutSpace(iban_in) =>
        /\ iban_ok <=> Mod97Valid(iban_in)
        /\ WellFormedIban(iban_in) =>
            LET numeric == _iban_to_int_string(Rearranged(iban_in))
                ds == DigitsOf(MovedToEnd(iban_in))
            IN  /\ Len(numeric) = Len(ds)
                /\ FinalRemainder(numeric) = WeightedSum(ds, Len(ds), 1)
                /\ \A k \in 0..Min(MaxCounted, Len(ds)) :
                       Remainder(numeric, k) = ValueOf(ds, k) % 97

\* the validator has accepted a well-known IBAN with letters in its body
C5_Witness == pc = "validated" /\ iban_in = i_GB /\ iban_ok

-----------------------------------------------------------------------------
(* Properties of _normalize_amount (SpecAmount) *)

HasChar(s, c) == \E i \in DOMAIN s : s[i] = c
DigitCount(s) == Cardinality({i \in DOMAIN s : s[i] \in DigitSet})
Digits(s) == SelectSeq(s, LAMBDA c : c \in DigitSet)

\* the number a sequence of digit characters writes
RECURSIVE Number(_)
Number(ds) == IF ds = <<>> THEN 0 ELSE Number(SubSeq(ds, 1, Len(ds) - 1)) * 10 + Worth(ds[Len(ds)])

RECURSIVE Pow10(_)
Pow10(n) == IF n = 0 THEN 1 ELSE 10 * Pow10(n - 1)

\* digits to the right of the last occurrence of the character c
DigitsAfter(s, c) ==
    LET at == CHOOSE i \in DOMAIN s : s[i] = c /\ \A j \in DOMAIN s : s[j] = c => j <= i
    IN  DigitCount(SubSeq(s, at + 1, Len(s)))

\* amount x is the number n / 10^scale
IsValue(x, n, scale) ==
    /\ Len(x.frac) <= scale
    /\ Number(x.int \o x.frac) * Pow10(scale - Len(x.frac)) = n

\* the original statement of C10: a string with a dot and no comma is never
\* accepted
C10_DotWithoutCommaRejected ==
    pc = "normalized" /\ HasChar(raw_amount, ".") /\ ~HasChar(raw_amount, ",")
        => amount_out = None

\* C10 (amended): on strings of digits, dots, commas and blanks, a string
\* without a comma is accepted exactly when it has a digit and at most one
\* dot, and that dot is read as the decimal point ("1234.56" is 1234.56); a
\* string with a comma is accepted exactly when it has one comma and a digit,
\* its dots are dropped as thousands separators and the comma is the decimal
\* point ("1.234,56" is 1234.56).
C10_DotIsDecimalWithoutComma ==
    pc = "normalized" =>
        IF HasChar(raw_amount, ",")
        THEN /\ Present(amount_out) <=>
                    (Count(raw_amount, ",") = 1 /\ DigitCount(raw_amount) > 0)
             /\ Present(amount_out) =>
                    IsValue(Val(amount_out), Number(Digits(raw_amount)),
                            DigitsAfter(raw_amount, ","))
        ELSE /\ Present(amount_out) <=>
                    (Count(raw_amount, ".") <= 1 /\ DigitCount(raw_amount) > 0)
             /\ Present(amount_out) =>
                    IsValue(Val(amount_out), Number(Digits(raw_amount)),
                            IF HasChar(raw_amount, ".")
                            THEN DigitsAfter(raw_amount, ".") ELSE 0)

\* "1234.56" has been read as 1234.56
C10_Witness ==
    /\ pc = "normalized"
    /\ raw_amount = a_dot
    /\ amount_out = Some([int |-> <<"1", "2", "3", "4">>, frac |-> <<"5", "6">>])

-----------------------------------------------------------------------------
(* Properties of parse_invoice_files (SpecBatch) *)

\* C3: parse_invoice_files never raises, and returns one record per path, the
\* i-th record that of the i-th path.  The code does not meet this: a file
\* that cannot be opened for hashing raises out of the loop.
C3_OneRecordPerPath ==
    /\ returned # "raised"
    /\ returned = "returned" =>
        /\ Len(records) = Len(file_paths)
        /\ \A i \in DOMAIN records :
            /\ records[i].file_name = file_paths[i].name
            /\ records[i].sha256 = file_paths[i].content

-----------------------------------------------------------------------------
(* Properties of the records of detect_and_parse, continued (Spec) *)

Errors(r) == Range(r.parse_errors)

\* C4: a record that carries a pdf_read_error or ocr_error code is held for
\* review and is not payment-ready.  The code does not meet this: when the
\* OCR fallback of parse_pdf throws, the short text layer is parsed.
C4_AcquisitionFailureNeedsReview ==
    Produced /\ (HasPrefix(Errors(Val(outcome)), "pdf_read_error")
                 \/ HasPrefix(Errors(Val(outcome)), "ocr_error"))
        => /\ Val(outcome).status = "needs_review"
           /\ ~Val(outcome).payment_ready

\* the IBAN shape in an upper-cased text T: T[i..j] is two letters and 13 to
\* 34 letters, digits or blanks, from a word boundary to a word boundary
IsWord(c) == c \in UpperSet \cup DigitSet \cup {"_"}
WordAt(T, i) == i >= 1 /\ i <= Len(T) /\ IsWord(T[i])
Boundary(T, i) == WordAt(T, i - 1) # WordAt(T, i)
WithoutSpace(s) == SelectSeq(s, LAMBDA c : c \notin SpaceSet)
StartsShape(T, i) ==
    /\ i + 1 <= Len(T)
    /\ T[i] \in UpperSet /\ T[i + 1] \in UpperSet
    /\ Boundary(T, i)
EndsShape(T, i, j) ==
    /\ Boundary(T, j + 1)
    /\ \A k \in (i + 2)..j : T[k] \in UpperSet \cup DigitSet \cup SpaceSet
ValidShapes(T) ==
    UNION {{<<i, j>> : j \in {j \in (i + 14)..Min(i + 35, Len(T)) :
                                /\ EndsShape(T, i, j)
                                /\ Mod97Valid(WithoutSpace(SubSeq(T, i, j)))}} :
            i \in {i \in DOMAIN T : StartsShape(T, i)}}
Earliest(shapes) ==
    CHOOSE c \in shapes :
        \A d \in shapes : c[1] < d[1] \/ (c[1] = d[1] /\ c[2] <= d[2])

\* C6: the IBAN of a record is the first substring of the upper-cased text
\* that has the IBAN shape and is valid once its blanks are removed; the field
\* is absent exactly when there is no such substring, and then and only then
\* iban_missing_or_invalid is recorded.  The code does not meet this: its
\* pattern takes the longest run from the first two letters on, and what the
\* run swallowed is not looked at again.
C6_FirstValidSubstring ==
    Produced /\ WasParsed(Val(outcome)) =>
        LET r == Val(outcome)
            T == Upper(r.text_preview)
            shapes == ValidShapes(T)
        IN  /\ Present(r.iban) <=> shapes # {}
            /\ shapes # {} =>
                 Val(r.iban) = WithoutSpace(SubSeq(T, Earliest(shapes)[1],
                                                   Earliest(shapes)[2]))
            /\ HasCode(Errors(r), "iban_missing_or_invalid") <=> ~Present(r.iban)

\* a record whose text has an invoice number, a positive amount and a valid
\* IBAN recognised in it, and no invoice date
NumberAmountIbanNoDate(r) ==
    /\ WasParsed(r)
    /\ Present(r.invoice_number)
    /\ Present(r.total_amount) /\ GreaterThanZero(Val(r.total_amount))
    /\ ~HasCode(Errors(r), "total_amount_from_filename")
    /\ Present(r.iban)
    /\ ~Present(r.invoice_date)

\* the texts of the example: number, amount and IBAN lines, no date line
ScenarioTexts ==
    {TextOf(1, 0, 1, c, 1, k) : c \in 0..Len(CurrencyLines), k \in 0..MaxFiller}

w_INV_42 == <<"I", "N", "V", "-", "4", "2">>
v_1250 == [int |-> <<"1", "2", "5", "0">>, frac |-> <<>>]

\* the original statement of C7: such a record is held for review
C7_NoDateNeedsReview ==
    Produced /\ NumberAmountIbanNoDate(Val(outcome)) =>
        /\ Val(outcome).payment_ready
        /\ HasCode(Errors(Val(outcome)), "invoice_date_missing")
        /\ Val(outcome).status = "needs_review"

\* C7 (amended): a record with an invoice number, a positive amount and a
\* valid IBAN recognised in its text and no invoice date is payment-ready,
\* carries invoice_date_missing and has status "ok": the status does not
\* depend on the date.  On the example's text the number is "INV-42" and the
\* amount 1250.00.
C7_NoDateStillOk ==
    Produced /\ NumberAmountIbanNoDate(Val(outcome)) =>
        LET r == Val(outcome)
        IN  /\ r.payment_ready
            /\ HasCode(Errors(r), "invoice_date_missing")
            /\ r.status = "ok"
            /\ r.text_preview \in ScenarioTexts =>
                 /\ r.invoice_number = Some(w_INV_42)
                 /\ r.total_amount = Some(v_1250)

\* the example's document, parsed: no date, and status "ok"
C7_Witness ==
    /\ Produced
    /\ NumberAmountIbanNoDate(Val(outcome))
    /\ Val(outcome).text_preview \in ScenarioTexts
    /\ Val(outcome).status = "ok"

\* C8: a record parsed from a text without any recognisable field, and
\* without an OCR failure on the way, has no number, date, amount or IBAN, is
\* held for review, carries the four codes of the missing fields and the
\* advice "Fill IBAN, Fill amount, Fill invoice number, Fill invoice date",
\* whatever the file is called.  The code does not meet this: digits of the
\* file name, those of the stored name's random prefix included, are taken
\* for the amount.
C8_NoFieldsAllMissing ==
    Produced /\ WasParsed(Val(outcome)) /\ Val(outcome).text_preview \in NoFieldTexts
             /\ ~HasPrefix(Errors(Val(outcome)), "ocr_error") =>
        LET r == Val(outcome)
        IN  /\ ~Present(r.invoice_number) /\ ~Present(r.invoice_date)
            /\ ~Present(r.total_amount) /\ ~Present(r.iban)
            /\ r.status = "needs_review"
            /\ HasCode(Errors(r), "iban_missing_or_invalid")
            /\ HasCode(Errors(r), "total_amount_missing")
            /\ HasCode(Errors(r), "invoice_number_missing")
            /\ HasCode(Errors(r), "invoice_date_missing")
            /\ _suggested_action(r.parse_errors)
                 = <<"Fill IBAN", ", ", "Fill amount", ", ",
                     "Fill invoice number", ", ", "Fill invoice date">>

\* the kind of a file by the end of its name, letter case aside
EndsWith(name, sfx) ==
    /\ Len(name) > Len(sfx)
    /\ Lower(SubSeq(name, Len(name) - Len(sfx) + 1, Len(name))) = sfx
IsPdfName(name) == EndsWith(name, sfx_pdf)
IsImageName(name) ==
    EndsWith(name, sfx_png) \/ EndsWith(name, sfx_jpg) \/ EndsWith(name, sfx_jpeg)
IsXmlName(name) == EndsWith(name, sfx_xml)

sfx_txt == <<".", "t", "x", "t">>
sfx_csv == <<".", "c", "s", "v">>

NothingExtracted(r) ==
    /\ ~Present(r.invoice_number) /\ ~Present(r.invoice_date)
    /\ ~Present(r.total_amount) /\ ~Present(r.iban) /\ ~Present(r.bic)
    /\ r.status = "needs_review"
    /\ ~r.payment_ready

\* C9: when the text layer of a PDF cannot be read, when the OCR of an image
\* throws, or when the suffix is none of the recognised ones, the record has
\* no number, date, amount, IBAN or BIC (the file name is not searched for an
\* amount), is held for review, and its parse_errors is the single code
\* pdf_read_error:d, ocr_error:d or unsupported_format:<suffix>, the suffix
\* in lower case, or "unknown" for a name without one.  A file of an
\* unsupported kind that can be read gets a record, uploaded or not.
C9_UnparsedRecordsAreEmpty ==
    /\ Produced =>
        LET r == Val(outcome)
            f == Val(file)
        IN  /\ IsPdfName(f.name) /\ ~f.pdf_text.ok =>
                 /\ NothingExtracted(r)
                 /\ r.parse_errors = <<[prefix |-> "pdf_read_error",
                                        detail |-> Some(f.pdf_text.detail)]>>
            /\ IsImageName(f.name) /\ ~f.ocr.ok =>
                 /\ NothingExtracted(r)
                 /\ r.parse_errors = <<[prefix |-> "ocr_error",
                                        detail |-> Some(f.ocr.detail)]>>
            /\ ~IsPdfName(f.name) /\ ~IsImageName(f.name) /\ ~IsXmlName(f.name) =>
                 /\ NothingExtracted(r)
                 /\ Len(r.parse_errors) = 1
                 /\ r.parse_errors[1].prefix = "unsupported_format"
                 /\ r.parse_errors[1].detail
                      = Some(IF EndsWith(f.name, sfx_txt) THEN sfx_txt
                             ELSE IF EndsWith(f.name, sfx_csv) THEN sfx_csv
                             ELSE w_unknown)
    /\ file # None /\ Val(file).readable => Produced

\* the record of a PDF whose text layer could not be read, named with digits
C9_Witness ==
    /\ Produced
    /\ Val(file).name = n_inv_2024_pdf
    /\ Val(outcome).parse_errors = <<[prefix |-> "pdf_read_error",
                                      detail |-> Some(m_corrupted_xref)]>>
    /\ NothingExtracted(Val(outcome))

-----------------------------------------------------------------------------
(* SpecRerun: the same upload sent to the upload endpoint twice *)

\* the record the pipeline gives for upload u when uuid4 draws hex
UploadedRecord(u, hex) == detect_and_parse(_write_upload(u, hex, _safe_filename(u.name)))

\* upload() with one file, for the first time: file keeps what was sent and
\* outcome the record of the latest upload
UploadOnce ==
    /\ pc = "idle"
    /\ \E u \in Uploads, hex \in UuidHexes :
        /\ file' = Some(u)
        /\ outcome' = Some(UploadedRecord(u, hex))
    /\ records' = <<>>
    /\ pc' = "uploaded once"
    /\ UNCHANGED <<file_paths, next_index, returned, iban_in, iban_ok,
                   raw_amount, amount_out, exports, advice_vars, web_vars>>

\* upload() with the same name and bytes again: records keeps the record of
\* the first upload
UploadAgain ==
    /\ pc = "uploaded once"
    /\ \E u \in {Val(file)}, hex \in UuidHexes : outcome' = Some(UploadedRecord(u, hex))
    /\ records' = <<Val(outcome)>>
    /\ pc' = "uploaded twice"
    /\ UNCHANGED <<file, file_paths, next_index, returned, iban_in, iban_ok,
                   raw_amount, amount_out, exports, advice_vars, web_vars>>

ForgetUploads ==
    /\ pc = "uploaded twice"
    /\ pc' = "idle"
    /\ file' = None /\ outcome' = None /\ records' = <<>>
    /\ UNCHANGED <<file_paths, next_index, returned, iban_in, iban_ok,
                   raw_amount, amount_out, exports, advice_vars, web_vars>>

NextRerun == UploadOnce \/ UploadAgain \/ ForgetUploads

SpecRerun == Init /\ [][NextRerun]_vars

\* the fields of a record that do not carry the run
Verdict(r) ==
    <<r.invoice_number, r.invoice_date, r.total_amount, r.currency, r.iban, r.bic,
      r.status, r.payment_ready, r.parse_errors, r.sha256>>

\* C11: the two records of the same upload agree in every field that does
\* not carry the run.  The code does not meet this: the amount of a document
\* without a labelled amount is read off the stored name, whose first 32
\* characters are drawn anew for every upload.
C11_SameBytesSameRecord ==
    pc = "uploaded twice" => Verdict(records[1]) = Verdict(Val(outcome))

-----------------------------------------------------------------------------
(* SpecExport: process_evidence_files, the batch parsed and then written   *)
(* out as the five views of export_outputs.  A view is the sequence of its *)
(* rows below the header; the timestamp of the JSON payloads is left out.  *)

w_UNKNOWN == <<"U", "N", "K", "N", "O", "W", "N">>

_safe_export_value(value, fallback) ==
    IF value = None THEN fallback
    ELSE IF Strip(Val(value)) # <<>> THEN Strip(Val(value)) ELSE fallback

\* EvidenceRecord.to_dict(): the fields of the dataclass
RecordFields ==
    {"file_name", "sha256", "evidence_type", "extraction_method", "text_preview",
     "invoice_number", "invoice_date", "total_amount", "currency", "iban", "bic",
     "status", "payment_ready", "parse_errors"}
to_dict(record) == [field \in RecordFields |-> record[field]]

XlsxRow(record) ==
    [file_name |-> record.file_name,
     sha256 |-> record.sha256,
     evidence_type |-> record.evidence_type,
     extraction_method |-> record.extraction_method,
     invoice_number |-> record.invoice_number,
     invoice_date |-> record.invoice_date,
     total_amount |-> record.total_amount,
     currency |-> record.currency,
     iban |-> record.iban,
     bic |-> record.bic,
     status |-> record.status,
     payment_ready |-> record.payment_ready,
     parse_errors |-> JoinWith(";", record.parse_errors)]

export_xlsx(rs) == [k \in DOMAIN rs |-> XlsxRow(rs[k])]

\* a payment view that keeps the records of status ok
InPaymentInstructionsWhenOk(record) == record.status = "ok"

\* `if not record.payment_ready: continue`
InPaymentInstructions(record) == record.payment_ready

PaymentRow(record) ==
    [beneficiary_name |-> _safe_export_value(None, w_UNKNOWN),
     iban |-> record.iban,
     bic |-> record.bic,
     amount |-> record.total_amount,
     currency |-> record.currency,
     reference |->
        _safe_export_value(
            Some(_safe_export_value(record.invoice_number, record.file_name)),
            record.file_name)]

export_payment_instructions(rs) ==
    LET paid == SelectSeq(rs, InPaymentInstructions)
    IN  [k \in DOMAIN paid |-> PaymentRow(paid[k])]

NeedsReview(record) == record.status = "needs_review"

ReviewRow(record) ==
    [file_name |-> record.file_name,
     status |-> record.status,
     extraction_method |-> record.extraction_method,
     total_amount |-> record.total_amount,
     currency |-> record.currency,
     iban |-> record.iban,
     invoice_number |-> record.invoice_number,
     text_preview |-> record.text_preview,
     suggested_action |-> _suggested_action(record.parse_errors),
     parse_errors |-> JoinWith(";", record.parse_errors)]

export_review_pack(rs) ==
    LET kept == SelectSeq(rs, NeedsReview)
    IN  [k \in DOMAIN kept |-> ReviewRow(kept[k])]

export_json_audit(rs, run_id) ==
    [run_id |-> run_id, records |-> [k \in DOMAIN rs |-> to_dict(rs[k])]]

export_review_json(rs, run_id) ==
    LET kept == SelectSeq(rs, NeedsReview)
    IN  [run_id |-> run_id, records |-> [k \in DOMAIN kept |-> to_dict(kept[k])]]

\* what the five files hold once export_outputs has returned
export_outputs(rs, run_id) ==
    [xlsx |-> export_xlsx(rs),
     ok_xlsx |-> export_payment_instructions(rs),
     review_xlsx |-> export_review_pack(rs),
     json |-> export_json_audit(rs, run_id),
     review_json |-> export_review_json(rs, run_id)]

\* uuid.uuid4().hex[:10] of the upload endpoint
RunIdLen == 10
RunIds == {Upto(hex, RunIdLen) : hex \in UuidHexes}

\* the files of a batch, one of them payment-ready without an invoice number
ExportFiles ==
    BatchFiles
    \cup {File(n_scan_png, "image", TRUE, Throws(m_corrupted_xref),
               Returns(TextOf(0, 1, 1, 1, 1, 0)))}

ExportLists == UNION {[1..n -> ExportFiles] : n \in 0..MaxFiles}

\* the call, up to records = [] of parse_invoice_files
ProcessEvidenceFiles ==
    /\ returned = "idle"
    /\ \E paths \in ExportLists : file_paths' = paths
    /\ next_index' = 1
    /\ records' = <<>>
    /\ returned' = "running"
    /\ UNCHANGED <<exports, advice_vars, web_vars>>
    /\ UNCHANGED <<pc, file, outcome, iban_in, iban_ok, raw_amount, amount_out>>

\* export_outputs(records, ...) once parse_invoice_files has returned
ExportOutputs ==
    /\ returned = "returned"
    /\ \E run_id \in RunIds : exports' = Some(export_outputs(records, run_id))
    /\ returned' = "exported"
    /\ UNCHANGED <<advice_vars, web_vars>>
    /\ UNCHANGED <<pc, file, outcome, file_paths, next_index, records,
                   iban_in, iban_ok, raw_amount, amount_out>>

NextExport == ProcessEvidenceFiles \/ ParseNextFile \/ ReturnRecords \/ ExportOutputs

SpecExport == Init /\ [][NextExport]_vars

\* the positions of the records a view is to hold, and the n-th of them
PaymentReadyAt == {k \in DOMAIN records : records[k].payment_ready}
NeedsReviewAt == {k \in DOMAIN records : records[k].status = "needs_review"}
Nth(at, n) == CHOOSE k \in at : Cardinality({j \in at : j <= k}) = n

\* a row or payload entry shows the record it was written from
ShowsRecord(row, r) ==
    /\ row.file_name = r.file_name
    /\ row.status = r.status
    /\ row.iban = r.iban
    /\ row.total_amount = r.total_amount
    /\ row.invoice_number = r.invoice_number
ShowsPayment(row, r) ==
    /\ row.iban = r.iban
    /\ row.amount = r.total_amount
    /\ row.currency = r.currency
    /\ row.reference = (IF Present(r.invoice_number) THEN Val(r.invoice_number)
                        ELSE r.file_name)

\* the view holds the records at the positions `at`, in their order
HoldsRecordsAt(view, at) ==
    /\ Len(view) = Cardinality(at)
    /\ \A n \in DOMAIN view : ShowsRecord(view[n], records[Nth(at, n)])
HoldsPaymentsAt(view, at) ==
    /\ Len(view) = Cardinality(at)
    /\ \A n \in DOMAIN view : ShowsPayment(view[n], records[Nth(at, n)])

\* C12: once the exports are written, the XLSX audit and the JSON audit hold
\* every record in the input order, the payment view holds exactly the
\* records with payment_ready = true in that order, both review views hold
\* exactly the records of status needs_review in that order, and every
\* record is in the payment view or in the review views or in both.
C12_ViewsPartitionRecords ==
    exports # None =>
        /\ HoldsRecordsAt(Val(exports).xlsx, DOMAIN records)
        /\ HoldsRecordsAt(Val(exports).json.records, DOMAIN records)
        /\ HoldsPaymentsAt(Val(exports).ok_xlsx, PaymentReadyAt)
        /\ HoldsRecordsAt(Val(exports).review_xlsx, NeedsReviewAt)
        /\ HoldsRecordsAt(Val(exports).review_json.records, NeedsReviewAt)
        /\ PaymentReadyAt \cup NeedsReviewAt = DOMAIN records

\* an export of two records, the first payment-ready and in need of review
\* (in both views), the second in the review views only
C12_Witness ==
    /\ exports # None
    /\ Len(records) = 2
    /\ records[1].payment_ready /\ records[1].status = "needs_review"
    /\ ~records[2].payment_ready
    /\ Len(Val(exports).ok_xlsx) = 1
    /\ Len(Val(exports).review_xlsx) = 2

-----------------------------------------------------------------------------
(* SpecAdvice: _suggested_action on lists of error codes *)

\* the codes the program emits, the two more _suggested_action knows, and
\* what follows the colon of the codes that carry a detail
w_not_a_pdf == <<"n", "o", "t", " ", "a", " ", "p", "d", "f">>
ErrorCodes ==
    {Code("iban_missing"), Code("iban_missing_or_invalid"),
     Code("total_amount_missing"), Code("total_amount_invalid"),
     Code("total_amount_non_positive"), Code("total_amount_from_filename"),
     Code("invoice_number_missing"), Code("invoice_date_missing"),
     Code("xml_parsing_not_implemented"),
     Tagged("pdf_read_error", m_corrupted_xref),
     Tagged("ocr_error", m_no_tesseract),
     Tagged("unsupported_format", w_unknown),
     Tagged("non_pdf_evidence", w_not_a_pdf)}

MaxErrors == 3
ErrorLists == UNION {[1..n -> ErrorCodes] : n \in 0..MaxErrors}

SuggestedAction ==
    /\ pc = "idle"
    /\ \E parse_errors \in ErrorLists :
        /\ errors_in' = parse_errors
        /\ action_out' = _suggested_action(parse_errors)
    /\ pc' = "advised"
    /\ UNCHANGED <<exports, web_vars>>
    /\ UNCHANGED <<file, outcome, file_paths, next_index, records, returned,
                   iban_in, iban_ok, raw_amount, amount_out>>

ForgetAdvice ==
    /\ pc = "advised"
    /\ pc' = "idle"
    /\ errors_in' = <<>> /\ action_out' = <<>>
    /\ UNCHANGED <<exports, web_vars>>
    /\ UNCHANGED <<file, outcome, file_paths, next_index, records, returned,
                   iban_in, iban_ok, raw_amount, amount_out>>

NextAdvice == SuggestedAction \/ ForgetAdvice

SpecAdvice == Init /\ [][NextAdvice]_vars

\* the actions of an advice: every other piece of the string, the pieces
\* between them being the separator
ActionsIn(advice) == [k \in 1..((Len(advice) + 1) \div 2) |-> advice[2 * k - 1]]
Advised(action) == \E k \in DOMAIN ActionsIn(action_out) : ActionsIn(action_out)[k] = action
Given(prefix) == \E k \in DOMAIN errors_in : errors_in[k] = Code(prefix)
GivenWithPrefix(prefix) == \E k \in DOMAIN errors_in : errors_in[k].prefix = prefix

IbanRelated == Given("iban_missing") \/ Given("iban_missing_or_invalid")
AmountRelated ==
    \/ Given("total_amount_missing")
    \/ Given("total_amount_invalid")
    \/ Given("total_amount_non_positive")

\* C13: _suggested_action includes Fill IBAN whenever an IBAN-related code is
\* present, Fill amount whenever total_amount_missing, total_amount_invalid
\* or total_amount_non_positive is present, Fill invoice number and Fill
\* invoice date whenever the corresponding _missing code is present, and
\* the four file actions whenever a code with their prefix is present; and
\* no action is included without a code of its group.
C13_ActionIffCodeOfGroup ==
    pc = "advised" =>
        /\ Advised("Fill IBAN") <=> IbanRelated
        /\ Advised("Fill amount") <=> AmountRelated
        /\ Advised("Fill invoice number") <=> Given("invoice_number_missing")
        /\ Advised("Fill invoice date") <=> Given("invoice_date_missing")
        /\ Advised("Check PDF file") <=> GivenWithPrefix("pdf_read_error")
        /\ Advised("Review scan quality") <=> GivenWithPrefix("ocr_error")
        /\ Advised("Convert to PDF") <=> GivenWithPrefix("unsupported_format")
        /\ Advised("Provide PDF version") <=> GivenWithPrefix("non_pdf_evidence")

ActionOrder ==
    <<"Fill IBAN", "Fill amount", "Fill invoice number", "Fill invoice date",
      "Check PDF file", "Review scan quality", "Convert to PDF", "Provide PDF version">>
PlaceOf(action) == CHOOSE k \in DOMAIN ActionOrder : ActionOrder[k] = action
IsAction(action) == \E k \in DOMAIN ActionOrder : ActionOrder[k] = action

\* the lists with the entries of l rearranged or repeated, of the length of
\* l and one longer
SameCodes(l) ==
    {p \in [DOMAIN l -> Range(l)] : Range(p) = Range(l)}
    \cup {Append(l, c) : c \in Range(l)}

\* a code _suggested_action has an action for
Recognized(e) ==
    \/ e \in {Code("iban_missing"), Code("iban_missing_or_invalid"),
              Code("total_amount_missing"), Code("total_amount_invalid"),
              Code("invoice_number_missing"), Code("invoice_date_missing")}
    \/ e.prefix \in {"pdf_read_error", "ocr_error", "unsupported_format",
                     "non_pdf_evidence"}

\* C14: the advice depends only on the set of codes (rearranging the list or
\* repeating entries gives the same string); it is either the default alone
\* or actions of the fixed order in that order, each at most once, joined by
\* ", "; it is the default exactly when no recognized code is present, and
\* it is never empty.
C14_AdviceOfCodeSet ==
    pc = "advised" =>
        /\ \A other \in SameCodes(errors_in) : _suggested_action(other) = action_out
        /\ action_out # <<>>
        /\ Len(action_out) % 2 = 1
        /\ \A k \in DOMAIN action_out : k % 2 = 0 => action_out[k] = ", "
        /\ (action_out = <<"Review evidence manually">>)
                <=> ~\E k \in DOMAIN errors_in : Recognized(errors_in[k])
        /\ action_out # <<"Review evidence manually">> =>
                /\ \A k \in DOMAIN ActionsIn(action_out) : IsAction(ActionsIn(action_out)[k])
                /\ \A j, k \in DOMAIN ActionsIn(action_out) :
                        j < k => PlaceOf(ActionsIn(action_out)[j])
                                    < PlaceOf(ActionsIn(action_out)[k])

\* a list against the fixed order and with a repeated entry: invoice date,
\* IBAN, invoice date again
C14_Witness ==
    /\ pc = "advised"
    /\ errors_in = <<Code("invoice_date_missing"), Code("iban_missing_or_invalid"),
                     Code("invoice_date_missing")>>
    /\ action_out = <<"Fill IBAN", ", ", "Fill invoice date">>

-----------------------------------------------------------------------------
(* The amount codes of a parsed record (Spec) *)

\* the text shows an amount under a label: one of the amount lines is in it
Shows(text, line) ==
    \E i \in 1..(Len(text) - Len(line) + 1) : SubSeq(text, i, i + Len(line) - 1) = line
HasAmountLine(text) == \E k \in DOMAIN AmountLines : Shows(text, AmountLines[k])

\* the amount codes among the errors of a record
AmountCodes(r) ==
    {c \in {"total_amount_invalid", "total_amount_missing", "total_amount_from_filename"} :
        HasCode(Errors(r), c)}

\* the first run of digits of a name (the names hold no comma), as an amount
FirstDigitAt(name) == CHOOSE i \in DOMAIN name : name[i] \in DigitSet /\ \A j \in 1..(i - 1) : name[j] \notin DigitSet
FirstRunEnd(name) ==
    CHOOSE j \in DOMAIN name :
        /\ j >= FirstDigitAt(name)
        /\ \A k \in FirstDigitAt(name)..j : name[k] \in DigitSet
        /\ (j = Len(name) \/ name[j + 1] \notin DigitSet)
FirstRun(name) == SubSeq(name, FirstDigitAt(name), FirstRunEnd(name))
WritesSameNumber(x, ds) ==
    /\ x.frac = <<>>
    /\ \E z \in 0..Len(ds) :
        /\ \A k \in 1..z : ds[k] = "0"
        /\ x.int = SubSeq(ds, z + 1, Len(ds))
        /\ (x.int = <<>> \/ x.int[1] # "0")

AmountCodesAgree(r) ==
    /\ Cardinality(AmountCodes(r)) <= 1
    /\ ~Present(r.total_amount)
        <=> (HasCode(Errors(r), "total_amount_invalid")
             \/ HasCode(Errors(r), "total_amount_missing"))
    \* a body match is never replaced by the file name, also when it fails
    \* to normalize; without one the file name is the only source
    /\ HasAmountLine(r.text_preview) =>
            /\ ~HasCode(Errors(r), "total_amount_from_filename")
            /\ ~HasCode(Errors(r), "total_amount_missing")
    /\ ~HasAmountLine(r.text_preview) =>
            /\ ~HasCode(Errors(r), "total_amount_invalid")
            /\ Present(r.total_amount) <=> \E i \in DOMAIN r.file_name : r.file_name[i] \in DigitSet
            /\ Present(r.total_amount) => WritesSameNumber(Val(r.total_amount), FirstRun(r.file_name))
    /\ HasCode(Errors(r), "total_amount_from_filename")
        <=> (Present(r.total_amount) /\ ~HasAmountLine(r.text_preview))
    /\ HasCode(Errors(r), "total_amount_non_positive")
        <=> (Present(r.total_amount) /\ ~GreaterThanZero(Val(r.total_amount)))
    /\ (r.parse_errors = <<Code("total_amount_from_filename")>>)
        => (r.payment_ready /\ r.status = "ok")

\* C15: in a record built from parsed text the file name is the source of
\* the amount only when the body shows no amount under a label (a body
\* amount that fails to normalize stays invalid); at most one of
\* total_amount_invalid, total_amount_missing, total_amount_from_filename is
\* present; total_amount is absent iff one of the first two is;
\* total_amount_from_filename is present iff the amount came from the file
\* name, and a record with that code alone is payment-ready and ok;
\* total_amount_non_positive is present iff the amount is present and not
\* greater than zero.
C15_AmountCodes ==
    (Produced /\ WasParsed(Val(outcome))) => AmountCodesAgree(Val(outcome))

\* inv_2024.pdf with number, date and IBAN but no amount in its text: the
\* amount 2024 is read off the name, the one code is total_amount_from_filename
\* and the record is ok
C15_Witness ==
    /\ Produced /\ WasParsed(Val(outcome))
    /\ Val(outcome).file_name = n_inv_2024_pdf
    /\ Val(outcome).parse_errors = <<Code("total_amount_from_filename")>>
    /\ Val(outcome).total_amount = Some([int |-> <<"2", "0", "2", "4">>, frac |-> <<>>])
    /\ Val(outcome).status = "ok"

-----------------------------------------------------------------------------
(* Amount strings with a comma (SpecAmount) *)

\* what is left of a raw amount once spaces, no-break spaces and dots are
\* removed and the comma is replaced by the decimal point
Residue(raw) ==
    LET kept == SelectSeq(raw, LAMBDA c : c \notin {" ", "nbsp", "."})
    IN  [i \in DOMAIN kept |-> IF kept[i] = "," THEN "." ELSE kept[i]]

\* a numeral: digits with at most one decimal point, one digit at the least
IsNumeral(s) ==
    /\ \A i \in DOMAIN s : s[i] \in DigitSet \cup {"."}
    /\ Cardinality({i \in DOMAIN s : s[i] = "."}) <= 1
    /\ \E i \in DOMAIN s : s[i] \in DigitSet

\* the digits before and after the point of a numeral
WholePart(s) == SubSeq(s, 1, (CHOOSE i \in 1..(Len(s) + 1) : i = Len(s) + 1 \/ s[i] = ".") - 1)
DecimalPart(s) == SubSeq(s, Len(WholePart(s)) + 2, Len(s))

\* amount x is the value of the numeral s: the same digits before and after
\* the point, zeros at the front and at the end aside
SameValue(x, s) ==
    /\ \E z \in 0..Len(WholePart(s)) :
        /\ \A k \in 1..z : WholePart(s)[k] = "0"
        /\ SubSeq(WholePart(s), z + 1, Len(WholePart(s))) = x.int
    /\ \E z \in 0..Len(DecimalPart(s)) :
        /\ \A k \in (Len(DecimalPart(s)) - z + 1)..Len(DecimalPart(s)) : DecimalPart(s)[k] = "0"
        /\ SubSeq(DecimalPart(s), 1, Len(DecimalPart(s)) - z) = x.frac
    /\ (x.int = <<>> \/ x.int[1] # "0")
    /\ (x.frac = <<>> \/ x.frac[Len(x.frac)] # "0")

InCommaAlphabet(raw) ==
    /\ \A i \in DOMAIN raw : raw[i] \in DigitSet \cup {" ", "nbsp", ".", ","}
    /\ HasChar(raw, ",")

\* C16: on a string of digits, spaces, no-break spaces, dots and commas that
\* holds a comma, _normalize_amount gives the value of the string with
\* spaces, no-break spaces and dots removed and the comma replaced by the
\* decimal point when that is a numeral, and absent (no exception) when it
\* is not, as with more than one comma; a second call gives the same result.
C16_CommaIsDecimalPoint ==
    (pc = "normalized" /\ InCommaAlphabet(raw_amount)) =>
        /\ Present(amount_out) <=> IsNumeral(Residue(raw_amount))
        /\ Present(amount_out) => SameValue(Val(amount_out), Residue(raw_amount))
        /\ Count(raw_amount, ",") > 1 => amount_out = None
        /\ _normalize_amount(raw_amount) = amount_out

\* '1.234,56' gives 1234.56
C16_Witness ==
    /\ pc = "normalized"
    /\ raw_amount = a_european
    /\ amount_out = Some([int |-> <<"1", "2", "3", "4">>, frac |-> <<"5", "6">>])

-----------------------------------------------------------------------------
(* The currency of a parsed record (Spec) *)

\* C17: a record parsed from a text that holds no currency token has no
\* currency, carries currency_missing and is not payment-ready; a record has
\* a currency only when its text holds the token.  The code does not meet
\* this: _parse_fields sets the currency to EUR whatever the text says.
C17_CurrencyOnlyWhenRecognized ==
    (Produced /\ WasParsed(Val(outcome)) /\ ~Shows(Val(outcome).text_preview, l_currency)) =>
        /\ ~Present(Val(outcome).currency)
        /\ HasCode(Errors(Val(outcome)), "currency_missing")
        /\ ~Val(outcome).payment_ready

-----------------------------------------------------------------------------
(* SpecWeb: the web layer (src/app.py).  upload is a coroutine: the event   *)
(* loop runs it up to each `await upload.read()` and from there on, one    *)
(* coroutine at a time, so two uploads interleave at the awaits only.  The *)
(* handlers api_invoices and download_* are plain functions, which the     *)
(* server runs on worker threads: their reads of latest_records and        *)
(* latest_exports fall anywhere between the statements of an upload.       *)
(*                                                                         *)
(* upload_at[u] is where request u stands (waiting, reading, stored,       *)
(* recorded, done, raised) and its files, stored under their new names     *)
(* once read.  The number u stands for the run id of the request, and the  *)
(* fields run of latest_records and latest_exports and exports_run and     *)
(* records_run of answer note which request wrote what was read: the       *)
(* program keeps no such note.  The timestamp of the export names is left  *)
(* out.                                                                    *)

WebUploads ==
    {File(n_scan_png, "image", TRUE, Throws(m_corrupted_xref),
          Returns(TextOf(1, 1, 1, 1, 1, 0))),
     File(n_notes_txt, "other", TRUE, Throws(m_corrupted_xref), Throws(m_no_tesseract))}
WebHexes == {Uuid4Hex("a", "8")}
StoredWebUploads ==
    {_write_upload(f, hex, _safe_filename(f.name)) : f \in WebUploads, hex \in WebHexes}

\* process_evidence_files on one stored file: the dicts it returns
ProcessedWebUploads == [f \in StoredWebUploads |-> <<to_dict(detect_and_parse(f))>>]

DownloadKeys == {"xlsx", "ok_xlsx", "review_xlsx"}
_export_paths(run_id) ==
    [key \in {"xlsx", "json", "ok_xlsx", "review_xlsx", "review_json"} |->
        [run_id |-> run_id, file |-> key]]

\* the event loop is free: no upload is between its two assignments
EventLoopFree == \A v \in UploadRequests : upload_at[v].at # "recorded"

\* the request arrives: run_id, and the loop up to `await upload.read()`
UploadRead(u) ==
    /\ upload_at[u].at = "waiting"
    /\ EventLoopFree
    /\ \E f \in WebUploads :
        upload_at' = [upload_at EXCEPT ![u] = [at |-> "reading", paths |-> <<f>>]]
    /\ UNCHANGED <<latest_records, latest_exports, answer>>
    /\ UNCHANGED <<pc, file, outcome, file_paths, next_index, records, returned,
                   iban_in, iban_ok, raw_amount, amount_out, exports, advice_vars>>

\* the bytes are read: _write_upload, upload_paths.append
UploadStore(u) ==
    /\ upload_at[u].at = "reading"
    /\ EventLoopFree
    /\ \E hex \in WebHexes :
        upload_at' = [upload_at EXCEPT ![u] =
            [at |-> "stored",
             paths |-> <<_write_upload(upload_at[u].paths[1], hex,
                                       _safe_filename(upload_at[u].paths[1].name))>>]]
    /\ UNCHANGED <<latest_records, latest_exports, answer>>
    /\ UNCHANGED <<pc, file, outcome, file_paths, next_index, records, returned,
                   iban_in, iban_ok, raw_amount, amount_out, exports, advice_vars>>

\* latest_records = speer_core.process_evidence_files(...): the assignment
\* happens when the call returns, and not at all when it raises (a file
\* that cannot be written, say)
UploadProcess(u) ==
    /\ upload_at[u].at = "stored"
    /\ EventLoopFree
    /\ \E raises \in BOOLEAN :
        IF raises
        THEN /\ upload_at' = [upload_at EXCEPT ![u].at = "raised"]
             /\ UNCHANGED latest_records
        ELSE /\ upload_at' = [upload_at EXCEPT ![u].at = "recorded"]
             /\ latest_records' =
                    [run |-> u, records |-> ProcessedWebUploads[upload_at[u].paths[1]]]
    /\ UNCHANGED <<latest_exports, answer>>
    /\ UNCHANGED <<pc, file, outcome, file_paths, next_index, records, returned,
                   iban_in, iban_ok, raw_amount, amount_out, exports, advice_vars>>

\* latest_exports = {key: str(path) ...}, and the redirect
UploadPublish(u) ==
    /\ upload_at[u].at = "recorded"
    /\ upload_at' = [upload_at EXCEPT ![u].at = "done"]
    /\ latest_exports' = Some([run |-> u, paths |-> _export_paths(u)])
    /\ UNCHANGED <<latest_records, answer>>
    /\ UNCHANGED <<pc, file, outcome, file_paths, next_index, records, returned,
                   iban_in, iban_ok, raw_amount, amount_out, exports, advice_vars>>

\* a handler thread is free to take a request
HandlerFree == IF answer = None THEN TRUE ELSE Val(answer).status_code # 0

InvoiceSummary(record) ==
    [file_name |-> record.file_name,
     status |-> record.status,
     payment_ready |-> record.payment_ready,
     total_amount |-> record.total_amount,
     iban |-> record.iban,
     invoice_number |-> record.invoice_number]

ApiInvoices ==
    /\ HandlerFree
    /\ answer' = Some([handler |-> "api_invoices", status_code |-> 200,
                       content |-> [k \in DOMAIN latest_records.records |->
                                        InvoiceSummary(latest_records.records[k])],
                       exports_run |-> 0,
                       records_run |-> latest_records.run])
    /\ UNCHANGED <<latest_records, latest_exports, upload_at>>
    /\ UNCHANGED <<pc, file, outcome, file_paths, next_index, records, returned,
                   iban_in, iban_ok, raw_amount, amount_out, exports, advice_vars>>

\* `if not latest_exports or not latest_exports.get(key)`: 404, or on to the
\* return statement (status_code 0 while the handler is at work)
DownloadCheck(key) ==
    /\ HandlerFree
    /\ answer' = Some([handler |-> key,
                       status_code |-> IF latest_exports = None THEN 404 ELSE 0,
                       content |-> <<>>,
                       exports_run |-> 0,
                       records_run |-> 0])
    /\ UNCHANGED <<latest_records, latest_exports, upload_at>>
    /\ UNCHANGED <<pc, file, outcome, file_paths, next_index, records, returned,
                   iban_in, iban_ok, raw_amount, amount_out, exports, advice_vars>>

\* `return FileResponse(latest_exports[key], ...)`: a second read
DownloadServe ==
    /\ answer # None /\ Val(answer).status_code = 0
    /\ answer' = Some([handler |-> Val(answer).handler,
                       status_code |-> 200,
                       content |-> <<Val(latest_exports).paths[Val(answer).handler]>>,
                       exports_run |-> Val(latest_exports).run,
                       records_run |-> latest_records.run])
    /\ UNCHANGED <<latest_records, latest_exports, upload_at>>
    /\ UNCHANGED <<pc, file, outcome, file_paths, next_index, records, returned,
                   iban_in, iban_ok, raw_amount, amount_out, exports, advice_vars>>

NextWeb ==
    \/ \E u \in UploadRequests : UploadRead(u)
    \/ \E u \in UploadRequests : UploadStore(u)
    \/ \E u \in UploadRequests : UploadProcess(u)
    \/ \E u \in UploadRequests : UploadPublish(u)
    \/ ApiInvoices
    \/ \E key \in DownloadKeys : DownloadCheck(key)
    \/ DownloadServe

SpecWeb == Init /\ [][NextWeb]_vars

\* records and exports are both as at the start or both of one run
OfOneRun ==
    \/ latest_records = NoRecords /\ latest_exports = None
    \/ latest_exports # None /\ Val(latest_exports).run = latest_records.run

IsDownload(a) == a # None /\ Val(a).handler \in DownloadKeys /\ Val(a).status_code # 0

\* a download is answered 404 as long as no upload has completed
NotFoundBeforeFirstUpload ==
    (IsDownload(answer) /\ \A u \in UploadRequests : upload_at[u].at # "done")
        => Val(answer).status_code = 404

\* the path a download hands out is of the run whose records are served
PathOfServedRun ==
    (IsDownload(answer) /\ Val(answer).status_code = 200)
        => Val(answer).exports_run = Val(answer).records_run

\* an upload whose processing raised has written neither
RaisedWroteNothing ==
    \A u \in UploadRequests :
        upload_at[u].at = "raised" =>
            /\ latest_records.run # u
            /\ latest_exports # None => Val(latest_exports).run # u

\* C18: under every interleaving of uploads and handlers latest_records and
\* latest_exports are both in their initial state or both of the same run,
\* a download answers 404 before the first upload completes and never hands
\* out a path of a run whose records are not the ones served, and an upload
\* whose processing raises leaves both unchanged.  The code does not meet
\* this: upload assigns latest_records and latest_exports in two statements,
\* and a handler thread can run between them.
C18_ConsistentWebState ==
    /\ OfOneRun
    /\ NotFoundBeforeFirstUpload
    /\ PathOfServedRun
    /\ RaisedWroteNothing

====
